---- MODULE Spec2Model ----
(***************************************************************************)
(* Model of the community_sensor collector:                                *)
(*   src/code/collect_data.py   main loop, PMS pair diagnostics            *)
(*   src/code/sensors/so2.py    rate-limited SO2 register read             *)
(*   src/code/sensors/pms.py    PMSReader (as seen by the main loop)       *)
(*                                                                         *)
(* Python values are tagged records so that a dict may hold strings,       *)
(* numbers and None side by side:                                          *)
(*   Str(s)    a str                                                       *)
(*   Rat(n,d)  a number; an int v is Rat(v,1), a float is denoted by the   *)
(*             reduced fraction n/d whose nearest double it is             *)
(*   None      Python's None                                               *)
(***************************************************************************)
EXTENDS Integers, Sequences, FiniteSets, TLC

\* ------------------------------------------------------------------------
\* Python values
\* ------------------------------------------------------------------------

None == [none |-> TRUE]

Str(s) == [str |-> s]

RECURSIVE GCD(_, _)
GCD(a, b) == IF b = 0 THEN a ELSE GCD(b, a % b)

\* The number n/d (n >= 0, d > 0), reduced.
Rat(n, d) == LET g == GCD(n, d) IN [num |-> n \div g, den |-> d \div g]

IsNum(v) == "num" \in DOMAIN v

\* float(x): the identity on numbers; raises on anything else (IsNum guards it).
ToFloat(v) == Rat(v.num, v.den)

RLe(a, b) == a.num * b.den <= b.num * a.den

RLt(a, b) == a.num * b.den < b.num * a.den

\* 0.5 * (a + b): exact in double precision for the values handled here.
HalfSum(a, b) == Rat(a.num * b.den + b.num * a.den, 2 * a.den * b.den)

\* abs(a - b)
AbsDiff(a, b) ==
    LET x == a.num * b.den
        y == b.num * a.den
    IN  Rat(IF x >= y THEN x - y ELSE y - x, a.den * b.den)

\* a / b for b > 0: the double nearest to the exact quotient.
RDiv(a, b) == Rat(a.num * b.den, a.den * b.num)

\* max(a, b)
RMax(a, b) == IF RLt(a, b) THEN b ELSE a

\* dict.get(k, default)
Get(d, k, default) == IF k \in DOMAIN d THEN d[k] ELSE default

\* d[k] = v
Put(d, k, v) == [x \in DOMAIN d \cup {k} |-> IF x = k THEN v ELSE d[x]]

\* ------------------------------------------------------------------------
\* IEEE-754 double rounding, needed where the code compares the results of
\* two differently rounded computations (dev1 > dev2 * 1.5).  A positive
\* double is [exp |-> e, m |-> <<1, l1, l2, l3, l4>>]: the 53-bit significand
\* is the leading 1 followed by four 13-bit limbs, and the value is
\* (2^52 + l1*2^39 + l2*2^26 + l3*2^13 + l4) * 2^(e - 52).
\* Operands are quotients of integers below 2^17 (16-bit PM words, doubled
\* by the even-length median), so no intermediate value leaves 32 bits.
\* ------------------------------------------------------------------------

Limb == 8192

RECURSIVE Pow2(_)
Pow2(k) == IF k = 0 THEN 1 ELSE 2 * Pow2(k - 1)

\* Largest e >= 0 with 2^e * d <= n (n >= d > 0).
RECURSIVE ExpUp(_, _, _)
ExpUp(n, d, e) == IF 2 * d <= n THEN ExpUp(n, 2 * d, e + 1) ELSE e

\* Smallest k >= 0 with n * 2^k >= d (n > 0).
RECURSIVE ExpDown(_, _, _)
ExpDown(n, d, k) == IF n >= d THEN k ELSE ExpDown(2 * n, d, k + 1)

\* Round the significand <<1, l1, l2, l3, l4>> to nearest, ties to even.
\* up: the discarded part is above one half; tie: it is exactly one half.
RoundLimbs(e, m, up, tie) ==
    IF up \/ (tie /\ m[5] % 2 = 1)
    THEN LET s4 == m[5] + 1
             s3 == m[4] + (s4 \div Limb)
             s2 == m[3] + (s3 \div Limb)
             s1 == m[2] + (s2 \div Limb)
         IN  IF s1 \div Limb = 1
             THEN [exp |-> e + 1, m |-> <<1, 0, 0, 0, 0>>]
             ELSE [exp |-> e,
                   m |-> <<1, s1 % Limb, s2 % Limb, s3 % Limb, s4 % Limb>>]
    ELSE [exp |-> e, m |-> m]

\* The double nearest to n/d (n, d > 0): long division, 13 bits at a time.
FDiv(n, d) ==
    LET big == n >= d
        e   == IF big THEN ExpUp(n, d, 0) ELSE 0 - ExpDown(n, d, 0)
        nn  == IF big THEN n ELSE n * Pow2(0 - e)
        dd  == IF big THEN d * Pow2(e) ELSE d
        t1  == (nn - dd) * Limb
        t2  == (t1 % dd) * Limb
        t3  == (t2 % dd) * Limb
        t4  == (t3 % dd) * Limb
        r   == t4 % dd
    IN  RoundLimbs(e, <<1, t1 \div dd, t2 \div dd, t3 \div dd, t4 \div dd>>,
                   2 * r > dd, 2 * r = dd)

\* x * 1.5 in double precision: 3m has 54 or 55 significant bits, of which
\* the lowest one or two are rounded away.
FMul15(x) ==
    LET p4  == 3 * x.m[5]
        p3  == 3 * x.m[4] + (p4 \div Limb)
        p2  == 3 * x.m[3] + (p3 \div Limb)
        p1  == 3 * x.m[2] + (p2 \div Limb)
        top == 3 + (p1 \div Limb)
        s   == IF top = 3 THEN 2 ELSE 4
        q1  == (top % s) * Limb + (p1 % Limb)
        q2  == (q1 % s) * Limb + (p2 % Limb)
        q3  == (q2 % s) * Limb + (p3 % Limb)
        q4  == (q3 % s) * Limb + (p4 % Limb)
        low == q4 % s
    IN  RoundLimbs(IF top = 3 THEN x.exp ELSE x.exp + 1,
                   <<1, q1 \div s, q2 \div s, q3 \div s, q4 \div s>>,
                   2 * low > s, 2 * low = s)

\* x > y on doubles.
FGt(x, y) ==
    \/ x.exp > y.exp
    \/ /\ x.exp = y.exp
       /\ \E i \in 2..5 : /\ x.m[i] > y.m[i]
                          /\ \A j \in 2..(i - 1) : x.m[j] = y.m[j]

\* a > b * 1.5 as the code evaluates it on the doubles denoted by a and b.
GtTimes15(a, b) ==
    IF a.num = 0 THEN FALSE
    ELSE IF b.num = 0 THEN TRUE
    ELSE FGt(FDiv(a.num, a.den), FMul15(FDiv(b.num, b.den)))

\* ------------------------------------------------------------------------
\* collect_data.py: PMS agreement logic
\* ------------------------------------------------------------------------

BASELINE_N == 30

MIN_PM == Rat(1, 1)

RPD_OK == Rat(1, 4)

\* rpd(a, b)
rpd(a, b) ==
    LET m == HalfSum(a, b)
    IN  IF m.num <= 0 THEN None ELSE RDiv(AbsDiff(a, b), m)

\* sorted(xs): element k is the one that k - 1 others precede (ties by index).
Sorted(xs) ==
    LET n == Len(xs)
        Before(j, i) == RLt(xs[j], xs[i]) \/ (xs[j] = xs[i] /\ j < i)
        Pos(i) == 1 + Cardinality({j \in 1..n : Before(j, i)})
    IN  [k \in 1..n |-> xs[CHOOSE i \in 1..n : Pos(i) = k]]

\* Variant: for an even length, the upper of the two middle elements.
medianUpper(xs) ==
    LET ys == Sorted(xs)
        n  == Len(xs)
    IN  IF n = 0 THEN None ELSE ys[n \div 2 + 1]

\* median(xs); Python indexes from 0, so xs[n // 2] is element n \div 2 + 1.
median(xs) ==
    LET ys == Sorted(xs)
        n  == Len(xs)
    IN  IF n = 0 THEN None
        ELSE IF n % 2 = 1 THEN ys[n \div 2 + 1]
        ELSE HalfSum(ys[n \div 2], ys[n \div 2 + 1])

\* Variant: a deque without maxlen.
DequeAppendUnbounded(h, v) == Append(h, v)

\* deque(maxlen=BASELINE_N).append(v)
DequeAppend(h, v) ==
    IF Len(h) >= BASELINE_N THEN Append(Tail(h), v) ELSE Append(h, v)

\* The four diagnostic columns, preset before the decision.
PresetDiagnostics(row) ==
    Put(Put(Put(Put(row, "pm25_pms_mean", Str("NODATA")),
                         "pm25_pms_rpd", Str("NODATA")),
                         "pm25_pair_flag", Str("NODATA")),
                         "pm25_suspect_sensor", Str("NODATA"))

\* One baseline: append float(pm) when the status is "ok" and pm is not None;
\* float() raising on a non-number is swallowed (except Exception: pass).
UpdateBaseline(h, st, pm) ==
    IF st = Str("ok") /\ pm /= None /\ IsNum(pm)
    THEN DequeAppend(h, ToFloat(pm))
    ELSE h

\* Variant: the baselines are fed only while both sensors are "ok".
BaselinesWhenBothOk(row, h1, h2) ==
    IF /\ Get(row, "pms1_status", Str("")) = Str("ok")
       /\ Get(row, "pms2_status", Str("")) = Str("ok")
    THEN << UpdateBaseline(h1, Str("ok"), Get(row, "pm25_atm_pms1", None)),
            UpdateBaseline(h2, Str("ok"), Get(row, "pm25_atm_pms2", None)) >>
    ELSE <<h1, h2>>

\* Both baselines after "Update rolling baselines from ok readings".
Baselines(row, h1, h2) ==
    << UpdateBaseline(h1, Get(row, "pms1_status", Str("")),
                          Get(row, "pm25_atm_pms1", None)),
       UpdateBaseline(h2, Get(row, "pms2_status", Str("")),
                          Get(row, "pm25_atm_pms2", None)) >>

\* Variant: the branch names its suspect and leaves the flag as preset.
FlaggedSuspectOnly(row, flag, suspect) ==
    Put(row, "pm25_suspect_sensor", Str(suspect))

Flagged(row, flag, suspect) ==
    Put(Put(row, "pm25_pair_flag", Str(flag)), "pm25_suspect_sensor", Str(suspect))

\* Variant: agreement only strictly below the threshold.
WithinRpdStrict(d) == d /= None /\ RLt(d, RPD_OK)

\* d is not None and d <= RPD_OK
WithinRpd(d) == d /= None /\ RLe(d, RPD_OK)

\* Variant: any positive mean is compared.
HighEnoughPositive(mean_pm) == RLt(Rat(0, 1), mean_pm)

\* mean_pm >= MIN_PM
HighEnough(mean_pm) == RLe(MIN_PM, mean_pm)

\* abs(pmf - b) / max(b, MIN_PM) if b is not None else 0.0
Deviation(pmf, b) ==
    IF b /= None THEN RDiv(AbsDiff(pmf, b), RMax(b, MIN_PM)) ELSE Rat(0, 1)

\* Variant: the larger deviation is blamed, without a margin.
SuspectNoMargin(dev1, dev2) ==
    IF RLt(dev2, dev1) THEN "PMS1"
    ELSE IF RLt(dev1, dev2) THEN "PMS2"
    ELSE "BOTH"

\* The 1.5x margin rule on the two deviations.
Suspect(dev1, dev2) ==
    IF GtTimes15(dev1, dev2) THEN "PMS1"
    ELSE IF GtTimes15(dev2, dev1) THEN "PMS2"
    ELSE "BOTH"

\* The try block comparing two "ok" readings; h1, h2 are the baselines
\* already holding this tick's values.
CompareValues(row, pm1, pm2, h1, h2) ==
    IF ~IsNum(pm1) \/ ~IsNum(pm2)
    THEN Flagged(row, "ERROR", "UNKNOWN")
    ELSE LET pm1f    == ToFloat(pm1)
             pm2f    == ToFloat(pm2)
             mean_pm == HalfSum(pm1f, pm2f)
             r1      == Put(row, "pm25_pms_mean", mean_pm)
         IN  IF HighEnough(mean_pm)
             THEN LET d  == rpd(pm1f, pm2f)
                      r2 == Put(r1, "pm25_pms_rpd", d)
                  IN  IF WithinRpd(d)
                      THEN Put(r2, "pm25_pair_flag", Str("OK"))
                      ELSE LET b1   == median(h1)
                               b2   == median(h2)
                               dev1 == Deviation(pm1f, b1)
                               dev2 == Deviation(pm2f, b2)
                           IN  Flagged(r2, "MISMATCH", Suspect(dev1, dev2))
             ELSE Put(r1, "pm25_pair_flag", Str("LOW_PM_OK"))

\* Variant: a single failing sensor is reported under the other's name.
ClassifySwapped(row, h1, h2) ==
    LET pm1 == Get(row, "pm25_atm_pms1", None)
        pm2 == Get(row, "pm25_atm_pms2", None)
        st1 == Get(row, "pms1_status", Str(""))
        st2 == Get(row, "pms2_status", Str(""))
    IN  IF st1 /= Str("ok") /\ st2 /= Str("ok")
        THEN Flagged(row, "BOTH_BAD", "BOTH")
        ELSE IF st1 /= Str("ok") THEN Flagged(row, "PMS2_BAD", "PMS2")
        ELSE IF st2 /= Str("ok") THEN Flagged(row, "PMS1_BAD", "PMS1")
        ELSE IF pm1 /= None /\ pm2 /= None
        THEN CompareValues(row, pm1, pm2, h1, h2)
        ELSE Flagged(row, "INCOMPLETE", "UNKNOWN")

\* Status-first logic.
Classify(row, h1, h2) ==
    LET pm1 == Get(row, "pm25_atm_pms1", None)
        pm2 == Get(row, "pm25_atm_pms2", None)
        st1 == Get(row, "pms1_status", Str(""))
        st2 == Get(row, "pms2_status", Str(""))
    IN  IF st1 /= Str("ok") /\ st2 /= Str("ok")
        THEN Flagged(row, "BOTH_BAD", "BOTH")
        ELSE IF st1 /= Str("ok") THEN Flagged(row, "PMS1_BAD", "PMS1")
        ELSE IF st2 /= Str("ok") THEN Flagged(row, "PMS2_BAD", "PMS2")
        ELSE IF pm1 /= None /\ pm2 /= None
        THEN CompareValues(row, pm1, pm2, h1, h2)
        ELSE Flagged(row, "INCOMPLETE", "UNKNOWN")

\* "If nothing ended up being suspect, explicitly mark OK": the test is
\* against the empty string, while the column was preset to "NODATA".
MarkOk(row) ==
    IF /\ Get(row, "pm25_suspect_sensor", Str("")) = Str("")
       /\ Get(row, "pm25_pair_flag", Str("")) \in {Str("OK"), Str("LOW_PM_OK")}
    THEN Put(row, "pm25_suspect_sensor", Str("OK"))
    ELSE row

\* Variant: the tick is classified against the baselines as they were
\* before this tick's values were appended.
PairDiagnosticsStale(row, h1, h2) ==
    LET hs == Baselines(row, h1, h2)
    IN  [row |-> MarkOk(Classify(PresetDiagnostics(row), h1, h2)),
         h1  |-> hs[1],
         h2  |-> hs[2]]

\* The whole "PMS pair diagnostics" block of one tick.
PairDiagnostics(row, h1, h2) ==
    LET hs == Baselines(row, h1, h2)
    IN  [row |-> MarkOk(Classify(PresetDiagnostics(row), hs[1], hs[2])),
         h1  |-> hs[1],
         h2  |-> hs[2]]

\* ------------------------------------------------------------------------
\* sensors/so2.py
\* ------------------------------------------------------------------------

\* Clock resolution of the model: readings of time.monotonic() per second.
ClockHz == 2

\* Largest clock reading of the model.
MaxClock == 6

MIN_READ_INTERVAL_S == 1

\* MIN_READ_INTERVAL_S in clock units.
MinInterval == MIN_READ_INTERVAL_S * ClockHz

\* What _bus.read_i2c_block_data(_addr, 0x00, 8) may do: raise, or return a
\* block (0x86 = 134, 0x78 = 120, 0xFF = 255).
I2CBlocks ==
    { <<255, 134, 0, 12, 0, 1, 0, 0>>,
      <<255, 120, 1, 0, 0, 2, 0, 0>>,
      <<255, 1, 0, 12, 0, 0, 0, 0>>,
      <<0, 134, 0, 12, 0, 0, 0, 0>>,
      << >> }

I2COutcomes ==
    {[raise |-> "[Errno 121] Remote I/O error"]} \cup {[data |-> d] : d \in I2CBlocks}

\* float(raw) * scale: exact for scale 1.0, else the rounded product of the
\* double nearest to scale, kept as the pair of its factors.
ScaledPpm(raw, scale) ==
    IF scale = Rat(1, 1) THEN Rat(raw, 1) ELSE [raw |-> raw, scale |-> scale]

\* Variant: the two raw bytes taken low byte first.
parse_frameLowFirst(data) ==
    IF Len(data) < 6 THEN None
    ELSE IF data[1] /= 255 THEN None
    ELSE IF data[2] \notin {134, 120} THEN None
    ELSE LET b0    == data[3]
             b1    == data[4]
             raw   == b1 * 256 + b0
             dec   == data[6]
             scale == IF dec = 0 THEN Rat(1, 1)
                      ELSE IF dec = 1 THEN Rat(1, 10)
                      ELSE IF dec = 2 THEN Rat(1, 100)
                      ELSE Rat(1, 1)
         IN  [so2_ppm   |-> ScaledPpm(raw, scale),
              so2_raw   |-> Rat(raw, 1),
              so2_byte0 |-> Rat(b0, 1),
              so2_byte1 |-> Rat(b1, 1)]

\* _parse_frame(data); Python's data[i] is data[i + 1] here.
parse_frame(data) ==
    IF Len(data) < 6 THEN None
    ELSE IF data[1] /= 255 THEN None
    ELSE IF data[2] \notin {134, 120} THEN None
    ELSE LET b0    == data[3]
             b1    == data[4]
             raw   == b0 * 256 + b1
             dec   == data[6]
             scale == IF dec = 0 THEN Rat(1, 1)
                      ELSE IF dec = 1 THEN Rat(1, 10)
                      ELSE IF dec = 2 THEN Rat(1, 100)
                      ELSE Rat(1, 1)
         IN  [so2_ppm   |-> ScaledPpm(raw, scale),
              so2_raw   |-> Rat(raw, 1),
              so2_byte0 |-> Rat(b0, 1),
              so2_byte1 |-> Rat(b1, 1)]

\* The result dict read_so2 starts from.
So2Blank ==
    [so2_ppm    |-> Str("NODATA"),
     so2_raw    |-> Str("NODATA"),
     so2_byte0  |-> Str("NODATA"),
     so2_byte1  |-> Str("NODATA"),
     so2_error  |-> Str("OK"),
     so2_status |-> Str("ok")]

So2Error(msg) == [So2Blank EXCEPT !.so2_error = Str(msg), !.so2_status = Str("error")]

\* (now - _last_read_monotonic) < MIN_READ_INTERVAL_S
TooSoon(t, last) == (t - last) < MinInterval

\* Variant: every call, rate-limited or not, moves the timestamp.
StampAlways(t, last) == t

\* The timestamp read_so2 leaves behind for a call at time t.
Stamp(t, last) == IF TooSoon(t, last) THEN last ELSE t

\* Variant: the block read is issued a second time.
RegisterReadsRetry(t, opened) ==
    IF opened THEN <<[at |-> t, reg |-> 0, len |-> 8], [at |-> t, reg |-> 0, len |-> 8]>>
    ELSE << >>

\* The register reads _read8_from_reg0 issues: none when the lazy init_so2()
\* raises, else one read of 8 bytes from register 0x00.
RegisterReads(t, opened) ==
    IF opened THEN <<[at |-> t, reg |-> 0, len |-> 8]>> ELSE << >>

\* The try block of read_so2 (lines 136-152): [ret |-> the dict returned] or
\* [raise |-> str(e)] for the exception leaving it.
So2Try(opened, io) ==
    LET data   == IF "data" \in DOMAIN io /\ Len(io.data) = 8
                  THEN io.data ELSE None
        parsed == IF data = None THEN None ELSE parse_frame(data)
    IN  IF ~opened THEN [raise |-> "[Errno 2] No such file or directory"]
        ELSE IF "raise" \in DOMAIN io THEN [raise |-> io.raise]
        ELSE IF data = None THEN [ret |-> So2Error("NO_FRAME")]
        ELSE IF parsed = None THEN [ret |-> So2Error("BAD_FRAME")]
        ELSE [ret |-> [k \in DOMAIN So2Blank |->
                         IF k \in DOMAIN parsed THEN parsed[k]
                         ELSE So2Blank[k]]]

\* Variant: the exception leaves read_so2.
So2ExceptReraise(o) == IF "raise" \in DOMAIN o THEN o ELSE o.ret

\* except Exception as e (lines 154-158): what read_so2 hands to its caller,
\* the dict or, were the exception to leave it, [raise |-> str(e)].
So2Except(o) == IF "raise" \in DOMAIN o THEN So2Error(o.raise) ELSE o.ret

\* read_so2() called when time.monotonic() returns t.  bus: _bus is not None;
\* openok: SMBus(bus) would succeed; io: what the block read does.
\* Returns the dict, the new _last_read_monotonic and _bus, and the register
\* reads issued.
read_so2(t, last, bus, openok, io) ==
    IF TooSoon(t, last)
    THEN [ret |-> So2Error("RATE_LIMIT"), last |-> Stamp(t, last),
          bus |-> bus, reads |-> << >>]
    ELSE LET opened == bus \/ openok
         IN  [ret |-> So2Except(So2Try(opened, io)), last |-> Stamp(t, last),
              bus |-> opened, reads |-> RegisterReads(t, opened)]

\* ------------------------------------------------------------------------
\* State
\* ------------------------------------------------------------------------

VARIABLES
    cfg,            \* node.yaml: which sensors are enabled (with a port)
    pc,             \* position of main()
    pms1_reader,    \* pms1_reader is not None
    pms2_reader,    \* pms2_reader is not None
    so2_enabled,
    pms1_hist,      \* rolling baselines (deque contents, oldest first)
    pms2_hist,
    row,            \* the row being assembled
    written,        \* rows handed to dw.write_sample so far: the last one
    ticks,          \* number of rows written
    drops,          \* <<d1, d2>>: reads of PMS1 / PMS2 that returned no frame
    so2_bus,        \* so2._bus is not None
    last_read_monotonic,   \* so2._last_read_monotonic
    mono,           \* the last value time.monotonic() returned
    so2_ret,        \* what the last read_so2() call returned
    so2_calls,      \* number of read_so2() calls
    attempts,       \* times of the read_so2() calls that returned, not rate-limited
    reg_reads,      \* register reads issued on the bus, oldest first
    so2_data,       \* what the last call's register read did (None: no read)
    sent,           \* what the PMS5003 put on the serial line, and how the
                    \* line behaves once these bytes are consumed
    stream,         \* bytes on the line not yet read
    ser_open,       \* PMSReader._ser is an open port
    ppc,            \* position of PMSReader.read()
    pms_ret,        \* what the last PMSReader.read() returned
    pms_calls,      \* number of calls of the reader's methods
    ser1_open,      \* pms1_reader._ser is an open port
    ser2_open,      \* pms2_reader._ser is an open port
    dw_open,        \* the DailyWriter exists and close() was not called
    read_log,       \* the blocks of the loop body this tick has run
    begun,          \* number of ticks begun
    stop,           \* how the loop ended: "none", "interrupt", "escape"
    pms_body,       \* the bytes ser.read(30) returned in the last read()
    handles,        \* serial.Serial objects of the reader that are open
    pms_log,        \* the reader's methods called so far, in order
    med_xs,         \* the list a caller passes to median()
    med_ret,        \* what median() returned
    med_calls       \* number of median() calls

loopvars == <<cfg, pc, pms1_reader, pms2_reader, so2_enabled, pms1_hist,
              pms2_hist, row, written, ticks, drops>>

so2vars == <<so2_bus, last_read_monotonic, mono, so2_ret, so2_calls, attempts,
             reg_reads, so2_data>>

pmsvars == <<sent, stream, ser_open, ppc, pms_ret, pms_calls, pms_body, handles,
             pms_log>>

medvars == <<med_xs, med_ret, med_calls>>

nodevars == <<ser1_open, ser2_open, dw_open, read_log, begun, stop>>

vars == <<cfg, pc, pms1_reader, pms2_reader, so2_enabled, pms1_hist,
          pms2_hist, row, written, ticks, drops,
          so2_bus, last_read_monotonic, mono, so2_ret, so2_calls, attempts,
          reg_reads, so2_data,
          sent, stream, ser_open, ppc, pms_ret, pms_calls,
          ser1_open, ser2_open, dw_open, read_log, begun, stop,
          pms_body, handles, pms_log, med_xs, med_ret, med_calls>>

\* ------------------------------------------------------------------------
\* Bounds of the model
\* ------------------------------------------------------------------------

\* Ticks of the main loop under Spec (free PM values).
MaxTicks == 3

\* Ticks of the main loop under SpecFill (long run, one value per tick).
FillTicks == 32

\* Reads that may return no frame in a SpecFill run.
MaxDrops == 1

\* read_so2() calls under SpecSO2.
MaxCalls == 4

\* PM2.5 words the two sensors report under Spec.  The pairs cover trace
\* levels (1/0: mean 0.5), the MIN_PM boundary (1/1: mean 1.0), the rpd
\* boundary (7/9: rpd = 0.25), agreement (10/10, 10/9), the mismatch 10/16
\* and, after two ticks of 10/10, the tie 1/16 (dev1 = 0.9, dev2 = 0.6).
PM1Values == {1, 7, 10}

PM2Values == {0, 1, 9, 10, 16}

\* ------------------------------------------------------------------------
\* sensors/pms.py as the main loop sees it: PMSReader.read() returns None or
\* a dict of three 16-bit words.
\* ------------------------------------------------------------------------

PMSFrame(v) == [pm1 |-> Rat(v \div 2, 1), pm25 |-> Rat(v, 1), pm10 |-> Rat(v + 1, 1)]

\* ------------------------------------------------------------------------
\* sensors/bme.py
\* ------------------------------------------------------------------------

\* _ensure_sensor(): the function assigns _sensor and does not declare it
\* global, so the name is local to it and the test `if _sensor is None`
\* raises UnboundLocalError before the sensor is ever touched.
ensure_sensor == [raise |-> "UnboundLocalError"]

\* What sensor.get_sensor_data() / sensor.data would deliver: no new sample,
\* or a sample.
BMEData ==
    {None,
     [temp_c |-> Rat(21, 1), rh_pct |-> Rat(40, 1),
      pressure_hpa |-> Rat(1013, 1), voc_ohm |-> Rat(50000, 1)]}

\* read_bme(): the dict of four values, or None when there is no new sample
\* or anything raised.
read_bme(data) ==
    IF "raise" \in DOMAIN ensure_sensor THEN None ELSE data

\* ------------------------------------------------------------------------
\* collect_data.py: main()
\* ------------------------------------------------------------------------

\* row = {"timestamp_utc": ..., "timestamp_local": ..., "node_id": ...}
NewRow ==
    [timestamp_utc |-> Str("utc"), timestamp_local |-> Str("local"),
     node_id |-> Str("node")]

\* if b: / if s1: -- None and the empty dict are false.
Truthy(v) == DOMAIN v /= {} /\ "none" \notin DOMAIN v

\* The branch storing what read_bme() returned, or the cell of the except
\* clause had it raised.
StoreBME(r, b) ==
    IF "raise" \in DOMAIN b
    THEN Put(r, "bme_status", Str("error:" \o b.raise))
    ELSE IF Truthy(b)
    THEN Put(Put(Put(Put(Put(r, "temp_c", Get(b, "temp_c", None)),
                                "rh_pct", Get(b, "rh_pct", None)),
                                "pressure_hpa", Get(b, "pressure_hpa", None)),
                                "voc_ohm", Get(b, "voc_ohm", None)),
                                "bme_status", Str("ok"))
    ELSE Put(r, "bme_status", Str("no_data"))

\* The branch storing what pmsN_reader.read() returned (n is "pms1" or
\* "pms2"), or the cell of the except clause had it raised.
StorePMS(r, n, s) ==
    IF "raise" \in DOMAIN s
    THEN Put(r, n \o "_status", Str("error:" \o s.raise))
    ELSE IF Truthy(s)
    THEN Put(Put(Put(Put(r, "pm1_atm_" \o n, Get(s, "pm1", None)),
                            "pm25_atm_" \o n, Get(s, "pm25", None)),
                            "pm10_atm_" \o n, Get(s, "pm10", None)),
                            n \o "_status", Str("ok"))
    ELSE Put(r, n \o "_status", Str("no_frame"))

So2Keys == {"so2_ppm", "so2_raw", "so2_byte0", "so2_byte1", "so2_error", "so2_status"}

\* The branch storing what read_so2() returned (row[k] = v.get(k) for the
\* six keys) or, had it raised, the three cells of the except clause.
StoreSO2(r, v) ==
    IF "raise" \in DOMAIN v
    THEN Put(Put(Put(r, "so2_ppm", Str("NODATA")),
                        "so2_error", Str("exception:" \o v.raise)),
                        "so2_status", Str("error"))
    ELSE [k \in DOMAIN r \cup So2Keys |->
            IF k \in So2Keys THEN Get(v, k, None) ELSE r[k]]

\* tick_seconds of node.yaml, in seconds: a delay, or a negative number
\* (line 120 takes any float; nothing checks its range).
TickSeconds == {-1, 1}

\* node.yaml: the sensors enabled and the delay between two ticks.
Configs ==
    [bme : BOOLEAN, pms1 : BOOLEAN, pms2 : BOOLEAN, so2 : BOOLEAN,
     tick_seconds : TickSeconds]

\* median() has not been called.
MedIdle ==
    /\ med_xs = << >>
    /\ med_ret = None
    /\ med_calls = 0

\* The state before main() runs, but for the list handed to median(); the
\* so2 module is imported.
InitBase(c) ==
    /\ cfg = c
    /\ pc = "startup"
    /\ pms1_reader = FALSE
    /\ pms2_reader = FALSE
    /\ so2_enabled = FALSE
    /\ pms1_hist = << >>
    /\ pms2_hist = << >>
    /\ row = << >>
    /\ written = << >>
    /\ ticks = 0
    /\ drops = <<0, 0>>
    /\ so2_bus = FALSE
    /\ last_read_monotonic = 0
    /\ mono = 0
    /\ so2_ret = << >>
    /\ so2_calls = 0
    /\ attempts = << >>
    /\ reg_reads = << >>
    /\ so2_data = None
    /\ sent = [kind |-> "none", bytes |-> << >>, tail |-> "silent"]
    /\ stream = << >>
    /\ ser_open = FALSE
    /\ ppc = "idle"
    /\ pms_ret = None
    /\ pms_calls = 0
    /\ ser1_open = FALSE
    /\ ser2_open = FALSE
    /\ dw_open = FALSE
    /\ read_log = {}
    /\ begun = 0
    /\ stop = "none"
    /\ pms_body = << >>
    /\ handles = 0
    /\ pms_log = << >>

\* The state before main() runs.
InitWith(c) == InitBase(c) /\ MedIdle

\* init_so2(): opens the bus unless it is open; SMBus() may raise.
init_so2(openok) ==
    /\ so2_bus' = (so2_bus \/ openok)
    /\ UNCHANGED <<last_read_monotonic, mono, so2_ret, so2_calls, attempts,
                   reg_reads, so2_data>>

\* Variant: the sensor stays enabled when init_so2() raised.
EnabledAnyway(busopen) == TRUE

\* Lines 193-199: so2_enabled after the try around init_so2(); busopen: the
\* bus is open, init_so2() did not raise.
EnabledAfterInit(busopen) == busopen

\* Lines 126-203: readers for the enabled PMS sensors, SO2 initialised or
\* disabled after an init failure, the daily writer created.
Startup ==
    /\ pc = "startup"
    /\ pms1_reader' = cfg.pms1
    /\ pms2_reader' = cfg.pms2
    /\ IF cfg.so2
       THEN \E openok \in BOOLEAN :
               /\ init_so2(openok)
               /\ so2_enabled' = EnabledAfterInit(so2_bus \/ openok)
       ELSE /\ so2_enabled' = FALSE
            /\ UNCHANGED so2vars
    /\ dw_open' = TRUE
    /\ pc' = "top"
    /\ UNCHANGED <<cfg, pms1_hist, pms2_hist, row, written, ticks, drops>>
    /\ UNCHANGED pmsvars
    /\ UNCHANGED medvars
    /\ UNCHANGED <<ser1_open, ser2_open, read_log, begun, stop>>

\* Top of the while loop: a fresh row, then the BME block.
BeginTick(maxticks) ==
    /\ pc = "top"
    /\ ticks < maxticks
    /\ begun' = begun + 1
    /\ IF cfg.bme
       THEN \E data \in BMEData :
               /\ row' = StoreBME(NewRow, read_bme(data))
               /\ read_log' = {"bme"}
       ELSE /\ row' = NewRow
            /\ read_log' = {}
    /\ pc' = "pms1"
    /\ UNCHANGED <<cfg, pms1_reader, pms2_reader, so2_enabled, pms1_hist,
                   pms2_hist, written, ticks, drops>>
    /\ UNCHANGED so2vars
    /\ UNCHANGED pmsvars
    /\ UNCHANGED medvars
    /\ UNCHANGED <<ser1_open, ser2_open, dw_open, stop>>

\* What a PMS read may return this tick: a frame carrying one of values, or
\* None while candrop.
PMSReads(values, candrop) ==
    {PMSFrame(v) : v \in values} \cup (IF candrop THEN {None} ELSE {})

\* A read() that delivers a frame has an open port.
Delivers(s) == "raise" \notin DOMAIN s /\ Truthy(s)

\* ---- PMS1 ----
\* reads: what pms1_reader.read() may do this tick; opens: whether
\* serial.Serial() succeeds when read() has to open the port.
ReadPMS1(reads, opens) ==
    /\ pc = "pms1"
    /\ IF pms1_reader
       THEN \E s1 \in reads, openok \in opens :
               /\ Delivers(s1) => (ser1_open \/ openok)
               /\ ser1_open' = (ser1_open \/ openok)
               /\ row' = StorePMS(row, "pms1", s1)
               /\ drops' = IF s1 = None THEN <<drops[1] + 1, drops[2]>> ELSE drops
               /\ read_log' = read_log \cup {"pms1"}
       ELSE UNCHANGED <<row, drops, ser1_open, read_log>>
    /\ pc' = "pms2"
    /\ UNCHANGED <<cfg, pms1_reader, pms2_reader, so2_enabled, pms1_hist,
                   pms2_hist, written, ticks>>
    /\ UNCHANGED so2vars
    /\ UNCHANGED pmsvars
    /\ UNCHANGED medvars
    /\ UNCHANGED <<ser2_open, dw_open, begun, stop>>

\* Variant: PMS2 is read only when the PMS1 block stored a frame.
ReadPMS2Chained(reads, opens) ==
    /\ pc = "pms2"
    /\ IF pms2_reader /\ Get(row, "pms1_status", Str("ok")) = Str("ok")
       THEN \E s2 \in reads, openok \in opens :
               /\ Delivers(s2) => (ser2_open \/ openok)
               /\ ser2_open' = (ser2_open \/ openok)
               /\ row' = StorePMS(row, "pms2", s2)
               /\ drops' = IF s2 = None THEN <<drops[1], drops[2] + 1>> ELSE drops
               /\ read_log' = read_log \cup {"pms2"}
       ELSE UNCHANGED <<row, drops, ser2_open, read_log>>
    /\ pc' = "diag"
    /\ UNCHANGED <<cfg, pms1_reader, pms2_reader, so2_enabled, pms1_hist,
                   pms2_hist, written, ticks>>
    /\ UNCHANGED so2vars
    /\ UNCHANGED pmsvars
    /\ UNCHANGED medvars
    /\ UNCHANGED <<ser1_open, dw_open, begun, stop>>

\* ---- PMS2 ----
ReadPMS2(reads, opens) ==
    /\ pc = "pms2"
    /\ IF pms2_reader
       THEN \E s2 \in reads, openok \in opens :
               /\ Delivers(s2) => (ser2_open \/ openok)
               /\ ser2_open' = (ser2_open \/ openok)
               /\ row' = StorePMS(row, "pms2", s2)
               /\ drops' = IF s2 = None THEN <<drops[1], drops[2] + 1>> ELSE drops
               /\ read_log' = read_log \cup {"pms2"}
       ELSE UNCHANGED <<row, drops, ser2_open, read_log>>
    /\ pc' = "diag"
    /\ UNCHANGED <<cfg, pms1_reader, pms2_reader, so2_enabled, pms1_hist,
                   pms2_hist, written, ticks>>
    /\ UNCHANGED so2vars
    /\ UNCHANGED pmsvars
    /\ UNCHANGED medvars
    /\ UNCHANGED <<ser1_open, dw_open, begun, stop>>

\* Variant: the diagnostics raise on a row in which a sensor is not "ok",
\* and the exception leaves the loop.
DiagnoseAborts ==
    /\ pc = "diag"
    /\ IF Get(row, "pms1_status", Str("")) = Str("ok") /\
          Get(row, "pms2_status", Str("")) = Str("ok")
       THEN LET d == PairDiagnostics(row, pms1_hist, pms2_hist)
            IN  /\ row' = d.row
                /\ pms1_hist' = d.h1
                /\ pms2_hist' = d.h2
                /\ read_log' = read_log \cup {"diag"}
                /\ pc' = "so2"
                /\ UNCHANGED stop
       ELSE /\ pc' = "finally"
            /\ stop' = "escape"
            /\ UNCHANGED <<row, pms1_hist, pms2_hist, read_log>>
    /\ UNCHANGED <<cfg, pms1_reader, pms2_reader, so2_enabled, written, ticks, drops>>
    /\ UNCHANGED so2vars
    /\ UNCHANGED pmsvars
    /\ UNCHANGED medvars
    /\ UNCHANGED <<ser1_open, ser2_open, dw_open, begun>>

\* ---- PMS pair diagnostics (PM2.5) ----
Diagnose ==
    /\ pc = "diag"
    /\ LET d == PairDiagnostics(row, pms1_hist, pms2_hist)
       IN  /\ row' = d.row
           /\ pms1_hist' = d.h1
           /\ pms2_hist' = d.h2
    /\ read_log' = read_log \cup {"diag"}
    /\ pc' = "so2"
    /\ UNCHANGED <<cfg, pms1_reader, pms2_reader, so2_enabled, written, ticks, drops>>
    /\ UNCHANGED so2vars
    /\ UNCHANGED pmsvars
    /\ UNCHANGED medvars
    /\ UNCHANGED <<ser1_open, ser2_open, dw_open, begun, stop>>

\* One call of read_so2(): time.monotonic() returns some t not before its
\* last reading; the bus open and the block read do what they do.
CallReadSo2From(times, outcomes) ==
    \E t \in times, openok \in BOOLEAN, io \in outcomes :
        LET r == read_so2(t, last_read_monotonic, so2_bus, openok, io)
        IN  /\ mono' = t
            /\ last_read_monotonic' = r.last
            /\ so2_bus' = r.bus
            /\ so2_ret' = r.ret
            /\ so2_calls' = so2_calls + 1
            /\ attempts' = IF Get(r.ret, "so2_error", None) = Str("RATE_LIMIT")
                           THEN attempts ELSE Append(attempts, t)
            /\ reg_reads' = reg_reads \o r.reads
            /\ so2_data' = IF r.reads = << >> THEN None ELSE io

CallReadSo2 == CallReadSo2From(mono..MaxClock, I2COutcomes)

\* ---- SO2 ----
ReadSO2(times, outcomes) ==
    /\ pc = "so2"
    /\ IF so2_enabled
       THEN /\ CallReadSo2From(times, outcomes)
            /\ row' = StoreSO2(row, so2_ret')
            /\ read_log' = read_log \cup {"so2"}
       ELSE UNCHANGED <<row, so2_bus, last_read_monotonic, mono, so2_ret,
                        so2_calls, attempts, reg_reads, so2_data, read_log>>
    /\ pc' = "write"
    /\ UNCHANGED <<cfg, pms1_reader, pms2_reader, so2_enabled, pms1_hist,
                   pms2_hist, written, ticks, drops>>
    /\ UNCHANGED pmsvars
    /\ UNCHANGED medvars
    /\ UNCHANGED <<ser1_open, ser2_open, dw_open, begun, stop>>

\* dw.write_sample(row=row, ...)
Write ==
    /\ pc = "write"
    /\ written' = row
    /\ ticks' = ticks + 1
    /\ pc' = "sleep"
    /\ UNCHANGED <<cfg, pms1_reader, pms2_reader, so2_enabled, pms1_hist,
                   pms2_hist, row, drops>>
    /\ UNCHANGED so2vars
    /\ UNCHANGED pmsvars
    /\ UNCHANGED medvars
    /\ UNCHANGED nodevars

\* time.sleep(secs) raises ValueError for a negative secs (and for nan).
SleepRaises(secs) == secs < 0

\* time.sleep(tick_seconds): the loop goes on with the next tick, or the
\* ValueError, which nothing in the loop catches, takes main() to the
\* finally clause.
Sleep ==
    /\ pc = "sleep"
    /\ IF SleepRaises(cfg.tick_seconds)
       THEN /\ pc' = "finally"
            /\ stop' = "escape"
       ELSE /\ pc' = "top"
            /\ UNCHANGED stop
    /\ UNCHANGED <<cfg, pms1_reader, pms2_reader, so2_enabled, pms1_hist,
                   pms2_hist, row, written, ticks, drops>>
    /\ UNCHANGED so2vars
    /\ UNCHANGED pmsvars
    /\ UNCHANGED medvars
    /\ UNCHANGED <<ser1_open, ser2_open, dw_open, read_log, begun>>

\* ------------------------------------------------------------------------
\* Spec: the collector with the gas and climate sensors disabled in
\* node.yaml, serial ports that open, and the PM sensors reporting any of
\* PM1Values / PM2Values or no frame, for MaxTicks ticks.
\* ------------------------------------------------------------------------

Init == \E c \in {k \in Configs : ~k.bme /\ ~k.so2} : InitWith(c)

\* What the two readers may return in a tick of Spec.
PM1Reads == PMSReads(PM1Values, TRUE)

PM2Reads == PMSReads(PM2Values, TRUE)

FreeReadPMS1 == ReadPMS1(PM1Reads, {TRUE})

FreeReadPMS2 == ReadPMS2(PM2Reads, {TRUE})

FreeReadSO2 == ReadSO2(mono..MaxClock, I2COutcomes)

Next ==
    \/ Startup
    \/ BeginTick(MaxTicks)
    \/ FreeReadPMS1
    \/ FreeReadPMS2
    \/ Diagnose
    \/ FreeReadSO2
    \/ Write
    \/ Sleep

Spec == Init /\ [][Next]_vars

\* ------------------------------------------------------------------------
\* SpecFill: a long run that fills the baselines.  Both PM sensors enabled;
\* in tick k PMS1 reports k and PMS2 reports k + 1 (every sample is distinct,
\* so that an evicted sample is recognisable); at most MaxDrops reads return
\* no frame.
\* ------------------------------------------------------------------------

InitFill == \E c \in {k \in Configs : ~k.bme /\ k.pms1 /\ k.pms2 /\ ~k.so2} : InitWith(c)

CanDrop == drops[1] + drops[2] < MaxDrops

FillReadPMS1 == ReadPMS1(PMSReads({ticks + 1}, CanDrop), {TRUE})

FillReadPMS2 == ReadPMS2(PMSReads({ticks + 2}, CanDrop), {TRUE})

NextFill ==
    \/ Startup
    \/ BeginTick(FillTicks)
    \/ FillReadPMS1
    \/ FillReadPMS2
    \/ Diagnose
    \/ FreeReadSO2
    \/ Write
    \/ Sleep

SpecFill == InitFill /\ [][NextFill]_vars

\* ------------------------------------------------------------------------
\* SpecSO2: the so2 module driven by an arbitrary caller: init_so2() and
\* read_so2() in any order, at any times.
\* ------------------------------------------------------------------------

InitSO2 ==
    InitWith([bme |-> FALSE, pms1 |-> FALSE, pms2 |-> FALSE, so2 |-> TRUE,
              tick_seconds |-> 1])

CallInitSo2 ==
    /\ \E openok \in BOOLEAN : init_so2(openok)
    /\ UNCHANGED loopvars
    /\ UNCHANGED pmsvars
    /\ UNCHANGED medvars
    /\ UNCHANGED nodevars

CallRead ==
    /\ so2_calls < MaxCalls
    /\ CallReadSo2
    /\ UNCHANGED loopvars
    /\ UNCHANGED pmsvars
    /\ UNCHANGED medvars
    /\ UNCHANGED nodevars

NextSO2 ==
    \/ CallInitSo2
    \/ CallRead

SpecSO2 == InitSO2 /\ [][NextSO2]_vars

\* ------------------------------------------------------------------------
\* Properties of the PMS pair diagnostics
\* ------------------------------------------------------------------------

\* The tick's decision has been taken and its row is complete.
Diagnosed == pc \in {"so2", "write", "sleep"}

St1 == Get(row, "pms1_status", Str(""))

St2 == Get(row, "pms2_status", Str(""))

V1 == Get(row, "pm25_atm_pms1", None)

V2 == Get(row, "pm25_atm_pms2", None)

PairFlag == Get(row, "pm25_pair_flag", None)

SuspectSensor == Get(row, "pm25_suspect_sensor", None)

BothOkWithValues ==
    Diagnosed /\ St1 = Str("ok") /\ St2 = Str("ok") /\ V1 /= None /\ V2 /= None

\* C1: in every tick, whatever the PM2.5 values and the baselines hold:
\* neither status "ok" gives BOTH_BAD / BOTH, only sensor 1 not "ok" gives
\* PMS1_BAD / PMS1, only sensor 2 not "ok" gives PMS2_BAD / PMS2.
C1_StatusFirst ==
    Diagnosed =>
        /\ (St1 /= Str("ok") /\ St2 /= Str("ok"))
              => (PairFlag = Str("BOTH_BAD") /\ SuspectSensor = Str("BOTH"))
        /\ (St1 /= Str("ok") /\ St2 = Str("ok"))
              => (PairFlag = Str("PMS1_BAD") /\ SuspectSensor = Str("PMS1"))
        /\ (St1 = Str("ok") /\ St2 /= Str("ok"))
              => (PairFlag = Str("PMS2_BAD") /\ SuspectSensor = Str("PMS2"))

\* Sensor 1 alone fails in a tick where sensor 2 delivers a value and has a
\* baseline of earlier values.
C1_Witness ==
    /\ Diagnosed
    /\ St1 = Str("no_frame") /\ St2 = Str("ok") /\ V2 = Rat(16, 1)
    /\ Len(pms2_hist) >= 2
    /\ PairFlag = Str("PMS1_BAD") /\ SuspectSensor = Str("PMS1")

\* C2 as the specification states it: after a tick whose pair flag is OK or
\* LOW_PM_OK the suspect column is "OK".  The program leaves it at "NODATA".
C2_SuspectExplicitlyOk ==
    (Diagnosed /\ PairFlag \in {Str("OK"), Str("LOW_PM_OK")})
        => SuspectSensor = Str("OK")

\* The deviation of a value from the median of its baseline, as the pair of
\* numerator and denominator of |v - b| / max(b, 1.0).
DevOf(v, h) ==
    LET b == median(h)
    IN  IF b = None THEN Rat(0, 1)
        ELSE RDiv(AbsDiff(ToFloat(v), b), RMax(b, Rat(1, 1)))

Dev1 == DevOf(V1, pms1_hist)

Dev2 == DevOf(V2, pms2_hist)

\* C3: in a MISMATCH tick the suspect is PMS1 if dev1 > 1.5 * dev2, else PMS2
\* if dev2 > 1.5 * dev1, else BOTH, the deviations and the products being the
\* program's doubles; whenever the real numbers differ (2*dev1 > 3*dev2 or
\* 2*dev2 > 3*dev1 strictly, or neither even with equality) the doubles
\* decide the same way.  With both medians 10, v1 = 10 and v2 = 16 the tick
\* is a MISMATCH blamed on PMS2.
C3_MarginRule ==
    /\ (Diagnosed /\ PairFlag = Str("MISMATCH")) =>
          /\ SuspectSensor =
                IF GtTimes15(Dev1, Dev2) THEN Str("PMS1")
                ELSE IF GtTimes15(Dev2, Dev1) THEN Str("PMS2")
                ELSE Str("BOTH")
          /\ 2 * Dev1.num * Dev2.den > 3 * Dev2.num * Dev1.den
                => SuspectSensor = Str("PMS1")
          /\ (/\ 2 * Dev1.num * Dev2.den < 3 * Dev2.num * Dev1.den
              /\ 2 * Dev2.num * Dev1.den > 3 * Dev1.num * Dev2.den)
                => SuspectSensor = Str("PMS2")
          /\ (/\ 2 * Dev1.num * Dev2.den < 3 * Dev2.num * Dev1.den
              /\ 2 * Dev2.num * Dev1.den < 3 * Dev1.num * Dev2.den)
                => SuspectSensor = Str("BOTH")
    /\ (/\ BothOkWithValues
        /\ median(pms1_hist) = Rat(10, 1) /\ median(pms2_hist) = Rat(10, 1)
        /\ V1 = Rat(10, 1) /\ V2 = Rat(16, 1))
          => (PairFlag = Str("MISMATCH") /\ SuspectSensor = Str("PMS2"))

\* The example of the specification: baselines with median 10, readings 10
\* and 16.
C3_Witness ==
    /\ Diagnosed
    /\ pms1_hist = <<Rat(10, 1), Rat(10, 1), Rat(10, 1)>>
    /\ pms2_hist = <<Rat(10, 1), Rat(10, 1), Rat(16, 1)>>
    /\ V1 = Rat(10, 1) /\ V2 = Rat(16, 1)
    /\ PairFlag = Str("MISMATCH") /\ SuspectSensor = Str("PMS2")

\* C4: both sensors "ok" with values and mean = 0.5 * (v1 + v2) >= 1.0: the
\* flag is OK exactly when |v1 - v2| / mean <= 0.25 (that is 8 * |v1 - v2| <=
\* v1 + v2 for the integer words), and MISMATCH otherwise.
C4_RpdThreshold ==
    (BothOkWithValues /\ V1.num + V2.num >= 2) =>
        LET diff == IF V1.num >= V2.num THEN V1.num - V2.num ELSE V2.num - V1.num
        IN  /\ PairFlag \in {Str("OK"), Str("MISMATCH")}
            /\ (PairFlag = Str("OK")) <=> (8 * diff <= V1.num + V2.num)
            /\ Get(row, "pm25_pms_mean", None) = Rat(V1.num + V2.num, 2)
            /\ Get(row, "pm25_pms_rpd", None) = Rat(2 * diff, V1.num + V2.num)

\* Readings 7 and 9: mean 8, rpd exactly 0.25, flagged OK.
C4_Witness ==
    /\ BothOkWithValues
    /\ V1 = Rat(7, 1) /\ V2 = Rat(9, 1)
    /\ Get(row, "pm25_pms_rpd", None) = Rat(1, 4)
    /\ PairFlag = Str("OK")

\* C5: both sensors "ok" with values and mean < 1.0: the flag is LOW_PM_OK
\* whatever the relative difference, the rpd column keeps its "NODATA"
\* preset, and no sensor is named as suspect.
C5_LowPm ==
    (BothOkWithValues /\ V1.num + V2.num < 2) =>
        /\ PairFlag = Str("LOW_PM_OK")
        /\ Get(row, "pm25_pms_rpd", None) = Str("NODATA")
        /\ SuspectSensor \notin {Str("PMS1"), Str("PMS2"), Str("BOTH")}

\* Readings 1 and 0 (relative difference 2.0) on baselines of median 10.
C5_Witness ==
    /\ BothOkWithValues
    /\ V1 = Rat(1, 1) /\ V2 = Rat(0, 1)
    /\ median(pms1_hist) = Rat(10, 1) /\ median(pms2_hist) = Rat(10, 1)
    /\ PairFlag = Str("LOW_PM_OK")
    /\ Get(row, "pm25_pms_mean", None) = Rat(1, 2)

\* ------------------------------------------------------------------------
\* Properties of the rolling baselines
\* ------------------------------------------------------------------------

\* Ticks whose diagnostics have run.
TicksDiagnosed == IF pc \in {"so2", "write"} THEN ticks + 1 ELSE ticks

\* Between the diagnostics of one tick and the first read of the next.
Settled == pc \in {"top", "pms1", "so2", "write", "sleep"}

\* Under SpecFill the sensor delivered the words 1 + o .. k + o in the ticks
\* 1 .. k, except in d of them.  h holds, oldest first, the latest 30 of the
\* delivered words: as many as were delivered up to 30, in the order of
\* delivery, with no delivered word missing after the oldest one kept.
LatestDelivered(h, k, d, o) ==
    LET n == Len(h)
    IN  /\ n = (IF k - d < 30 THEN k - d ELSE 30)
        /\ \A j \in 1..n : h[j] \in {Rat(w, 1) : w \in (1 + o)..(k + o)}
        /\ \A j \in 1..(n - 1) : h[j].num < h[j + 1].num
        /\ n > 0 => (k + o - h[1].num + 1) - n <= d
        /\ d = 0 => h = [j \in 1..n |-> Rat(k + o - n + j, 1)]

\* C6: each baseline holds at most 30 values in every state; an append to a
\* full baseline drops the oldest value and keeps the others in order, so
\* that after 31 appends of 1, 2, .., 31 the value 1 is gone and the median
\* is that of 2 .. 31.
C6_BoundedFifo ==
    /\ Len(pms1_hist) <= 30
    /\ Len(pms2_hist) <= 30
    /\ Settled =>
          /\ LatestDelivered(pms1_hist, TicksDiagnosed, drops[1], 0)
          /\ LatestDelivered(pms2_hist, TicksDiagnosed, drops[2], 1)
    /\ (Settled /\ drops[1] = 0 /\ TicksDiagnosed >= 31) =>
          /\ \A j \in 1..Len(pms1_hist) : pms1_hist[j] /= Rat(1, 1)
          /\ median(pms1_hist) = Rat(2 * TicksDiagnosed - 29, 2)

\* 31 ticks without a missed frame: 30 values, the oldest being the second.
C6_Witness ==
    /\ pc = "sleep" /\ ticks = 31 /\ drops = <<0, 0>>
    /\ Len(pms1_hist) = 30
    /\ pms1_hist[1] = Rat(2, 1) /\ pms1_hist[30] = Rat(31, 1)
    /\ median(pms1_hist) = Rat(33, 2)

\* A baseline after one more value.
Gained(h, v) == IF Len(h) < 30 THEN Append(h, v) ELSE Append(Tail(h), v)

\* C7: in the step that runs a tick's diagnostics, a baseline gains the
\* tick's PM2.5 value at its tail if and only if its own sensor's status is
\* "ok" and the value is a number, whatever the other sensor did; no other
\* step changes a baseline, and no step shortens one.
C7_BaselineUpdate ==
    [][ LET gain1 == pc = "diag" /\ St1 = Str("ok") /\ V1 /= None /\ IsNum(V1)
            gain2 == pc = "diag" /\ St2 = Str("ok") /\ V2 /= None /\ IsNum(V2)
        IN  /\ pms1_hist' = IF gain1 THEN Gained(pms1_hist, V1) ELSE pms1_hist
            /\ pms2_hist' = IF gain2 THEN Gained(pms2_hist, V2) ELSE pms2_hist
            /\ gain1 <=> pms1_hist' /= pms1_hist
            /\ gain2 <=> pms2_hist' /= pms2_hist
            /\ Len(pms1_hist') >= Len(pms1_hist)
            /\ Len(pms2_hist') >= Len(pms2_hist) ]_vars

\* Second tick: sensor 1 delivers while sensor 2 misses its frame; only the
\* first baseline has grown.
C7_Witness ==
    /\ Diagnosed /\ ticks = 1
    /\ St1 = Str("ok") /\ St2 = Str("no_frame")
    /\ Len(pms1_hist) = 2 /\ pms1_hist[2] = V1
    /\ Len(pms2_hist) = 1

\* ------------------------------------------------------------------------
\* Properties of read_so2
\* ------------------------------------------------------------------------

\* The step is a call of read_so2().
IsRead == so2_calls' = so2_calls + 1

RateLimited(ret) == ret.so2_error = Str("RATE_LIMIT")

\* The register reads the step issues.
NewReads == SubSeq(reg_reads', Len(reg_reads) + 1, Len(reg_reads'))

\* C8: a call of read_so2 that follows a call that was not rate-limited by
\* less than the minimum interval returns the RATE_LIMIT result (status
\* "error", no sample), issues no register read and leaves
\* _last_read_monotonic as it was.
C8_SecondCallLimited ==
    [][ (/\ IsRead
         /\ so2_calls >= 1
         /\ ~RateLimited(so2_ret)
         /\ mono' - mono < MinInterval)
        => /\ so2_ret' = So2Error("RATE_LIMIT")
           /\ reg_reads' = reg_reads
           /\ last_read_monotonic' = last_read_monotonic ]_vars

\* Two calls, the second later than the first but within the interval: one
\* register read, and the timestamp still that of the first call.
C8_Witness ==
    /\ so2_calls = 2
    /\ RateLimited(so2_ret)
    /\ attempts = <<last_read_monotonic>>
    /\ mono > last_read_monotonic
    /\ Len(reg_reads) = 1 /\ reg_reads[1].at = last_read_monotonic

\* C9 as the specification states it: the call that just returned was
\* rate-limited exactly when an earlier call that was not rate-limited lies
\* less than the minimum interval before it; a first call is never
\* rate-limited.  The program rate-limits a first call made while
\* time.monotonic() is below MIN_READ_INTERVAL_S.
C9_LimitedIffRecentAttempt ==
    so2_calls >= 1 =>
        LET limited == RateLimited(so2_ret)
            earlier == IF limited THEN attempts
                       ELSE SubSeq(attempts, 1, Len(attempts) - 1)
        IN  limited <=> \E i \in DOMAIN earlier : mono - earlier[i] < MinInterval

\* The reads a call issues are of 8 bytes from register 0x00, and all reads
\* so far are at least the minimum interval apart.
ReadsWellFormed ==
    /\ reg_reads' = reg_reads \o NewReads
    /\ \A i \in DOMAIN NewReads : NewReads[i].reg = 0 /\ NewReads[i].len = 8
    /\ \A i, j \in DOMAIN reg_reads' :
          i < j => reg_reads'[j].at - reg_reads'[i].at >= MinInterval

\* C10 as the specification states it: a call issues exactly one register
\* read when it is not rate-limited and none when it is.  The program issues
\* none either when the bus is not open and opening it fails.
C10_OneReadUnlessLimited ==
    [][ IsRead =>
          /\ Len(NewReads) = (IF RateLimited(so2_ret') THEN 0 ELSE 1)
          /\ ReadsWellFormed ]_vars

\* C10: over any sequence of calls, a call of read_so2 issues at most one
\* read of 8 bytes from register 0x00: exactly one when it is not
\* rate-limited and the bus is open or opens, none when it is rate-limited or
\* the bus fails to open, never a second one; any two register reads are at
\* least the minimum interval apart.
C10_AtMostOneRead ==
    [][ IsRead =>
          /\ Len(NewReads) <= 1
          /\ Len(NewReads) = (IF RateLimited(so2_ret') \/ ~so2_bus' THEN 0 ELSE 1)
          /\ ReadsWellFormed ]_vars

\* Three calls, one of them rate-limited between two that read the register.
C10_Witness ==
    /\ so2_calls = 3
    /\ Len(attempts) = 2 /\ attempts[1] < mono /\ attempts[2] = mono
    /\ so2_bus
    /\ Len(reg_reads) = 2
    /\ reg_reads[2].at - reg_reads[1].at = MinInterval + 1

\* ------------------------------------------------------------------------
\* SpecBlock: read_so2() called on any register block.  Byte 0 is the start
\* marker or not, byte 1 a known command or not, bytes 2-3 any raw value and
\* byte 5 any decimal code; MaxBlockCalls calls.
\* ------------------------------------------------------------------------

MaxBlockCalls == 1

Blocks ==
    { <<b0, b1, b2, b3, 0, b5, 0, 0>> :
        b0 \in {255, 0}, b1 \in {134, 120, 135},
        b2 \in {0, 1, 255}, b3 \in {0, 255}, b5 \in {0, 1, 2, 3} }

BlockOutcomes == {[data |-> d] : d \in Blocks}

ReadBlock ==
    /\ so2_calls < MaxBlockCalls
    /\ CallReadSo2From(mono..MaxClock, BlockOutcomes)
    /\ UNCHANGED loopvars
    /\ UNCHANGED pmsvars
    /\ UNCHANGED medvars
    /\ UNCHANGED nodevars

NextBlock ==
    \/ CallInitSo2
    \/ ReadBlock

SpecBlock == InitSO2 /\ [][NextBlock]_vars

\* The last call read an 8-byte block from the register.
ReadEightBytes == "data" \in DOMAIN so2_data /\ Len(so2_data.data) = 8

NoMeasurement(ret) ==
    /\ ret.so2_ppm = Str("NODATA") /\ ret.so2_raw = Str("NODATA")
    /\ ret.so2_byte0 = Str("NODATA") /\ ret.so2_byte1 = Str("NODATA")

\* C11: for every 8-byte register block, with bytes numbered from 0: if
\* byte 0 is not 0xFF or byte 1 is neither 0x86 nor 0x78 the call returns
\* BAD_FRAME without measurement values; otherwise raw = byte2 * 256 + byte3
\* and ppm = raw * scale, the scale being 1.0, 0.1, 0.01 for byte 5 = 0, 1, 2
\* and 1.0 for any other byte 5.
C11_ParseBlock ==
    ReadEightBytes =>
        LET d   == so2_data.data
            raw == d[3] * 256 + d[4]
        IN  IF d[1] /= 255 \/ d[2] \notin {134, 120}
            THEN /\ so2_ret.so2_error = Str("BAD_FRAME")
                 /\ so2_ret.so2_status = Str("error")
                 /\ NoMeasurement(so2_ret)
            ELSE /\ so2_ret.so2_error = Str("OK")
                 /\ so2_ret.so2_status = Str("ok")
                 /\ so2_ret.so2_raw = Rat(raw, 1)
                 /\ so2_ret.so2_byte0 = Rat(d[3], 1)
                 /\ so2_ret.so2_byte1 = Rat(d[4], 1)
                 /\ so2_ret.so2_ppm =
                       IF d[6] = 1 THEN [raw |-> raw, scale |-> Rat(1, 10)]
                       ELSE IF d[6] = 2 THEN [raw |-> raw, scale |-> Rat(1, 100)]
                       ELSE Rat(raw, 1)

\* A block FF 78 01 FF .. with decimal code 2: raw 511, ppm 511 * 0.01.
C11_Witness ==
    /\ ReadEightBytes
    /\ so2_data.data = <<255, 120, 1, 255, 0, 2, 0, 0>>
    /\ so2_ret.so2_raw = Rat(511, 1)
    /\ so2_ret.so2_ppm = [raw |-> 511, scale |-> Rat(1, 100)]

\* A call whose register read (or the opening of the bus before it) raised.
Raised == so2_data /= None /\ "raise" \in DOMAIN so2_data

\* C12: every call of read_so2 returns a dict with the six keys and never
\* lets an exception out; when the bus cannot be opened, the register read
\* raises, returns no 8-byte block or returns a bad frame, the status is
\* "error", the error cell names the failure and the four value cells hold
\* "NODATA".
C12_NeverRaises ==
    so2_calls >= 1 =>
        /\ DOMAIN so2_ret = So2Keys
        /\ so2_ret.so2_status \in {Str("ok"), Str("error")}
        /\ so2_ret.so2_status = Str("ok")
              <=> (ReadEightBytes /\ so2_data.data[1] = 255
                                  /\ so2_data.data[2] \in {134, 120})
        /\ so2_ret.so2_status = Str("error") => NoMeasurement(so2_ret)
        /\ Raised => so2_ret.so2_error = Str(so2_data.raise)
        /\ (so2_data /= None /\ ~Raised /\ ~ReadEightBytes)
              => so2_ret.so2_error = Str("NO_FRAME")
        /\ (ReadEightBytes /\ so2_ret.so2_status = Str("error"))
              => so2_ret.so2_error = Str("BAD_FRAME")

\* A call whose block read raised the I/O error of an absent device.
C12_Witness ==
    /\ so2_calls >= 1
    /\ Raised
    /\ so2_ret = So2Error("[Errno 121] Remote I/O error")
    /\ Len(reg_reads) = 1

\* ------------------------------------------------------------------------
\* sensors/pms.py: PMSReader.read() byte by byte
\* ------------------------------------------------------------------------

RECURSIVE SumBytes(_)
SumBytes(bs) == IF bs = << >> THEN 0 ELSE Head(bs) + SumBytes(Tail(bs))

\* Variant: the low byte first.
Unpack16LowFirst(hi, lo) == lo * 256 + hi

\* struct.unpack(">H", two bytes)
Unpack16(hi, lo) == hi * 256 + lo

\* Variant: the checksum is not compared.
ParseBodyUnchecked(rest) ==
    IF Len(rest) /= 30 THEN None
    ELSE IF Unpack16(rest[1], rest[2]) /= 28 THEN None
    ELSE LET vals == [i \in 0..12 |-> Unpack16(rest[2 * i + 3], rest[2 * i + 4])]
         IN  [pm1  |-> Rat(vals[3], 1),
              pm25 |-> Rat(vals[4], 1),
              pm10 |-> Rat(vals[5], 1)]

\* Lines 48-68: the 30 bytes after the sync marker.
ParseBody(rest) ==
    IF Len(rest) /= 30 THEN None
    ELSE IF Unpack16(rest[1], rest[2]) /= 28 THEN None
    ELSE LET data_bytes    == SubSeq(rest, 1, 28)
             checksum_recv == Unpack16(rest[29], rest[30])
             checksum_calc == (66 + 77 + SumBytes(data_bytes)) % 65536
             vals == [i \in 0..12 |-> Unpack16(rest[2 * i + 3], rest[2 * i + 4])]
         IN  IF checksum_calc /= checksum_recv THEN None
             ELSE [pm1  |-> Rat(vals[3], 1),
                   pm25 |-> Rat(vals[4], 1),
                   pm10 |-> Rat(vals[5], 1)]

\* Bytes a line without pending data may still deliver: never 0x4D, so
\* never the sync marker.
NoiseBytes == {0, 66}

\* ser.read(n) on a line holding the bytes s.  With fewer than n bytes
\* pending the line times out ("silent": the pending bytes are returned),
\* keeps delivering the byte nb ("noise") or fails ("fault": SerialException).
SerRead(s, tail, n, nb) ==
    IF Len(s) >= n
    THEN [data |-> SubSeq(s, 1, n), rest |-> SubSeq(s, n + 1, Len(s))]
    ELSE IF tail = "silent" THEN [data |-> s, rest |-> << >>]
    ELSE IF tail = "noise"
    THEN [data |-> s \o [k \in 1..(n - Len(s)) |-> nb], rest |-> << >>]
    ELSE [raise |-> "device reports readiness to read but returned no data"]

\* Variant: the exception leaves read().
PmsExceptReraise(o) == IF "raise" \in DOMAIN o THEN o ELSE o.ret

\* read(), lines 70-75: what the caller gets from the outcome of
\* _read_frame(), [ret |-> value] or [raise |-> str(e)].
PmsExcept(o) == IF "raise" \in DOMAIN o THEN None ELSE o.ret

\* How _read_frame() ends: read() returns.
PmsFinish(o) ==
    /\ pms_ret' = PmsExcept(o)
    /\ ppc' = "done"

\* Variant: open() without its test, a new port object on every call.
openAlways(isopen, n, openok) ==
    IF openok THEN [ser |-> TRUE, handles |-> n + 1]
    ELSE [raise |-> "could not open port", ser |-> isopen, handles |-> n]

\* open(), lines 21-27: a new serial.Serial unless the reader holds an open
\* one; serial.Serial() may raise.  isopen: the reader holds an open port;
\* n: the open port objects.
open(isopen, n, openok) ==
    IF isopen THEN [ser |-> TRUE, handles |-> n]
    ELSE IF openok THEN [ser |-> TRUE, handles |-> n + 1]
    ELSE [raise |-> "could not open port", ser |-> FALSE, handles |-> n]

\* read() is called: _read_frame() starts with self.open().
PmsCall(maxreads) ==
    /\ ppc \in {"idle", "done"}
    /\ pms_calls < maxreads
    /\ pms_calls' = pms_calls + 1
    /\ pms_log' = Append(pms_log, "read")
    /\ \E openok \in BOOLEAN :
          LET o == open(ser_open, handles, openok)
          IN  /\ ser_open' = o.ser
              /\ handles' = o.handles
              /\ IF "raise" \in DOMAIN o
                 THEN PmsFinish([raise |-> o.raise])
                 ELSE /\ ppc' = "sync"
                      /\ UNCHANGED pms_ret
    /\ pms_body' = << >>
    /\ UNCHANGED <<sent, stream>>
    /\ UNCHANGED <<loopvars, so2vars, nodevars, medvars>>

\* b = ser.read(1) at the top of the sync loop.
SyncFirst ==
    /\ ppc = "sync"
    /\ \E nb \in NoiseBytes :
          LET r == SerRead(stream, sent.tail, 1, nb)
          IN  IF "raise" \in DOMAIN r
              THEN PmsFinish(r) /\ UNCHANGED stream
              ELSE /\ stream' = r.rest
                   /\ IF r.data = << >> THEN PmsFinish([ret |-> None])
                      ELSE /\ ppc' = IF r.data = <<66>> THEN "second" ELSE "sync"
                           /\ UNCHANGED pms_ret
    /\ UNCHANGED <<sent, ser_open, pms_calls, pms_body, handles, pms_log>>
    /\ UNCHANGED <<loopvars, so2vars, nodevars, medvars>>

\* if ser.read(1) == b"\x4D": break
SyncSecond ==
    /\ ppc = "second"
    /\ \E nb \in NoiseBytes :
          LET r == SerRead(stream, sent.tail, 1, nb)
          IN  IF "raise" \in DOMAIN r
              THEN PmsFinish(r) /\ UNCHANGED stream
              ELSE /\ stream' = r.rest
                   /\ ppc' = IF r.data = <<77>> THEN "body" ELSE "sync"
                   /\ UNCHANGED pms_ret
    /\ UNCHANGED <<sent, ser_open, pms_calls, pms_body, handles, pms_log>>
    /\ UNCHANGED <<loopvars, so2vars, nodevars, medvars>>

\* rest = ser.read(30) and the decoding of the frame.
ReadBody ==
    /\ ppc = "body"
    /\ \E nb \in NoiseBytes :
          LET r == SerRead(stream, sent.tail, 30, nb)
          IN  IF "raise" \in DOMAIN r
              THEN PmsFinish(r) /\ UNCHANGED <<stream, pms_body>>
              ELSE /\ stream' = r.rest
                   /\ pms_body' = r.data
                   /\ PmsFinish([ret |-> ParseBody(r.data)])
    /\ UNCHANGED <<sent, ser_open, pms_calls, handles, pms_log>>
    /\ UNCHANGED <<loopvars, so2vars, nodevars, medvars>>

\* ------------------------------------------------------------------------
\* SpecPMS: one PMSReader on a serial line.  The line holds a valid PMS5003
\* frame, a frame with one checksum byte changed, a frame with a wrong
\* length field, a cut frame, a frame behind other bytes, or nothing; once
\* these bytes are consumed it is silent, noisy or faulty.  MaxReads calls
\* of read().
\* ------------------------------------------------------------------------

MaxReads == 2

\* PM words a frame carries.
PMWords == {0, 258, 65535}

\* The thirteen data words of a frame: words 3, 4, 5 are PM1.0, PM2.5, PM10
\* (atmospheric), the others are told apart by their values.
DataWords(p1, p25, p10) ==
    [i \in 1..13 |-> IF i = 4 THEN p1 ELSE IF i = 5 THEN p25
                     ELSE IF i = 6 THEN p10 ELSE 1000 + 3 * i]

\* The words as big-endian byte pairs.
BytesOf(ws) ==
    [k \in 1..(2 * Len(ws)) |->
        IF k % 2 = 1 THEN ws[(k + 1) \div 2] \div 256 ELSE ws[k \div 2] % 256]

\* The frame of the wire format: sync marker, length field, data words,
\* checksum over everything before it.
FrameWith(len, ws) ==
    LET body == BytesOf(<<len>>) \o BytesOf(ws)
        sum  == (66 + 77 + SumBytes(body)) % 65536
    IN  <<66, 77>> \o body \o BytesOf(<<sum>>)

Frame(ws) == FrameWith(28, ws)

\* bs with byte k replaced by v.
Corrupt(bs, k, v) == [bs EXCEPT ![k] = v]

ValidSources ==
    { [kind |-> "valid", words |-> DataWords(p1, p25, p10),
       bytes |-> Frame(DataWords(p1, p25, p10))] :
         p1 \in PMWords, p25 \in PMWords, p10 \in PMWords }

\* Every change of one of the two checksum bytes (bytes 31 and 32 of the
\* frame) of two frames.
BadSumSources ==
    LET changes == { c \in [src : {x \in ValidSources :
                                      x.words[4] = 258 /\ x.words[6] = 0},
                            k : {31, 32}, v : 0..255] : c.src.bytes[c.k] /= c.v }
    IN  { [kind |-> "badsum", words |-> c.src.words,
           bytes |-> Corrupt(c.src.bytes, c.k, c.v)] : c \in changes }

OtherSources ==
    LET ws == DataWords(1, 2, 3)
    IN  { [kind |-> "badlen", words |-> ws, bytes |-> FrameWith(27, ws)],
          [kind |-> "cut", words |-> ws, bytes |-> SubSeq(Frame(ws), 1, 20)],
          [kind |-> "behind", words |-> ws, bytes |-> <<7, 66, 0>> \o Frame(ws)],
          [kind |-> "doubled", words |-> ws, bytes |-> <<66>> \o Frame(ws)],
          [kind |-> "empty", words |-> ws, bytes |-> << >>] }

\* Longest run of other bytes in front of a frame.
MaxGarbage == 2

\* Bytes in front of a frame that hold no sync marker: 0x4D is not among
\* them.
GarbageBytes == {0, 66}

\* A valid frame behind up to MaxGarbage such bytes.
GarbageSources ==
    LET ws == DataWords(1, 2, 3)
    IN  { [kind |-> "garbage", words |-> ws, bytes |-> g \o Frame(ws)] :
            g \in UNION {[1..n -> GarbageBytes] : n \in 1..MaxGarbage} }

Tails == {"silent", "noise", "fault"}

\* A reader not yet used, on a line that will carry one of sources.
InitReader(sources) ==
    /\ cfg = [bme |-> FALSE, pms1 |-> TRUE, pms2 |-> FALSE, so2 |-> FALSE,
              tick_seconds |-> 1]
    /\ pc = "startup"
    /\ pms1_reader = FALSE
    /\ pms2_reader = FALSE
    /\ so2_enabled = FALSE
    /\ pms1_hist = << >>
    /\ pms2_hist = << >>
    /\ row = << >>
    /\ written = << >>
    /\ ticks = 0
    /\ drops = <<0, 0>>
    /\ so2_bus = FALSE
    /\ last_read_monotonic = 0
    /\ mono = 0
    /\ so2_ret = << >>
    /\ so2_calls = 0
    /\ attempts = << >>
    /\ reg_reads = << >>
    /\ so2_data = None
    /\ \E src \in sources, t \in Tails :
          /\ sent = [kind |-> src.kind, words |-> src.words,
                     bytes |-> src.bytes, tail |-> t]
          /\ stream = src.bytes
    /\ ser_open = FALSE
    /\ ppc = "idle"
    /\ pms_ret = None
    /\ pms_calls = 0
    /\ ser1_open = FALSE
    /\ ser2_open = FALSE
    /\ dw_open = FALSE
    /\ read_log = {}
    /\ begun = 0
    /\ stop = "none"
    /\ pms_body = << >>
    /\ handles = 0
    /\ pms_log = << >>
    /\ MedIdle

InitPMS ==
    InitReader(ValidSources \cup BadSumSources \cup OtherSources
                 \cup GarbageSources)

CallPMS == PmsCall(MaxReads)

NextPMS ==
    \/ CallPMS
    \/ SyncFirst
    \/ SyncSecond
    \/ ReadBody

SpecPMS == InitPMS /\ [][NextPMS]_vars

\* The same reader, with the program running on as long as it can.
SpecPMSFair == SpecPMS /\ WF_vars(NextPMS)

\* ------------------------------------------------------------------------
\* Properties of PMSReader.read()
\* ------------------------------------------------------------------------

\* The first read() on the line has returned, the port having opened.
FirstReadDone == ppc = "done" /\ pms_calls = 1 /\ ser_open

\* C13: for every valid frame (sync 0x42 0x4D, length 28, right checksum)
\* at the start of the line, read() returns pm1, pm25 and pm10 equal to the
\* data words 3, 4 and 5 that were encoded, big-endian.
C13_DecodesValidFrame ==
    (FirstReadDone /\ sent.kind = "valid") =>
        pms_ret = [pm1  |-> Rat(sent.words[4], 1),
                   pm25 |-> Rat(sent.words[5], 1),
                   pm10 |-> Rat(sent.words[6], 1)]

\* A frame carrying 258 (0x0102), 65535 and 0.
C13_Witness ==
    /\ FirstReadDone /\ sent.kind = "valid"
    /\ sent.words[4] = 258 /\ sent.words[5] = 65535 /\ sent.words[6] = 0
    /\ pms_ret.pm1 = Rat(258, 1) /\ pms_ret.pm25 = Rat(65535, 1)
    /\ stream = << >>

\* The status cell the collector writes for a value returned by read().
StatusFor(r) == StorePMS(NewRow, "pms1", r).pms1_status

\* The 30 bytes after the marker of a frame whose length field is 27.
WrongLengthBody == SubSeq(FrameWith(27, DataWords(1, 2, 3)), 3, 32)

\* C14 as the specification states it: a frame with one changed checksum
\* byte yields no measurement and a status that differs from the one of a
\* missing frame and from the one of a wrong length field.  The program
\* returns None in the three cases, recorded as "no_frame".
C14_ChecksumStatusDistinct ==
    (FirstReadDone /\ sent.kind = "badsum") =>
        /\ pms_ret = None
        /\ StatusFor(pms_ret) /= StatusFor(ParseBody(<< >>))
        /\ StatusFor(pms_ret) /= StatusFor(ParseBody(WrongLengthBody))

\* C14: whatever single byte of the checksum of an otherwise valid frame
\* is changed, read() returns None, no measurement; the collector records it
\* as "no_frame", the status it also records for a missing frame and for a
\* wrong length field.
C14_ChecksumRejected ==
    (FirstReadDone /\ sent.kind = "badsum") =>
        /\ pms_ret = None
        /\ StatusFor(pms_ret) = Str("no_frame")
        /\ StatusFor(ParseBody(<< >>)) = Str("no_frame")
        /\ StatusFor(ParseBody(WrongLengthBody)) = Str("no_frame")

\* The low checksum byte changed to 0.
C14_Witness ==
    /\ FirstReadDone /\ sent.kind = "badsum"
    /\ sent.bytes[32] = 0 /\ sent.bytes[31] = Frame(sent.words)[31]
    /\ stream = << >>
    /\ pms_ret = None

\* C15 as the specification states it: every read() that has started
\* returns.  On a line that keeps delivering bytes without the sync marker
\* the sync loop never ends.
C15_ReadReturns == (ppc = "sync") ~> (ppc = "done")

\* C16: read() never raises: it returns None or a dict of pm1, pm25, pm10;
\* when the port does not open, or the line fails while bytes are awaited,
\* it returns None.
C16_ReadNeverRaises ==
    /\ "raise" \notin DOMAIN pms_ret
    /\ pms_ret = None \/ DOMAIN pms_ret = {"pm1", "pm25", "pm10"}
    /\ (ppc = "done" /\ ~ser_open) => pms_ret = None
    /\ (ppc = "done" /\ sent.tail = "fault" /\ sent.kind \in {"empty", "cut"})
          => pms_ret = None

\* A cut frame on a line that then fails: ser.read(30) raised.
C16_Witness ==
    /\ FirstReadDone
    /\ sent.kind = "cut" /\ sent.tail = "fault"
    /\ stream = SubSeq(sent.bytes, 3, 20)
    /\ pms_ret = None

\* The bytes in front of the frame of a "garbage" line.
GarbageOf(src) == SubSeq(src.bytes, 1, Len(src.bytes) - 32)

\* C22: whatever bytes without a sync marker precede a complete valid frame
\* (0x42 among them), one read() finds the marker of the frame and returns
\* its measurement.  After a 0x42 the scanner consumes the next byte and,
\* when it is not 0x4D, does not look at it again: a 0x42 right in front of
\* the frame makes it miss the frame's own 0x42.
C22_FindsFrameBehindGarbage ==
    (FirstReadDone /\ sent.kind = "garbage") =>
        pms_ret = [pm1  |-> Rat(sent.words[4], 1),
                   pm25 |-> Rat(sent.words[5], 1),
                   pm10 |-> Rat(sent.words[6], 1)]

\* The checksum of the 30 bytes b as the wire format defines it.
WireChecksum(b) == (66 + 77 + SumBytes(SubSeq(b, 1, 28))) % 65536

\* C23 as the specification states it: a frame whose length field is not
\* 28 is rejected with a status of its own, not the one of a missing frame.
C23_LengthMismatchStatus ==
    (FirstReadDone /\ sent.kind = "badlen") =>
        /\ pms_ret = None
        /\ StatusFor(pms_ret) /= StatusFor(ParseBody(<< >>))

\* C23: whenever read() returns values, the 30 bytes read after the matched
\* sync marker had the length field 28 and a trailing checksum equal to
\* (0x42 + 0x4D + the sum of the 28 bytes before it) mod 65536.  A frame
\* whose length field is not 28 yields None, which the collector records as
\* "no_frame", the status of a missing frame.
C23_OnlyCheckedFrames ==
    /\ (ppc = "done" /\ pms_ret /= None) =>
          /\ Len(pms_body) = 30
          /\ pms_body[1] * 256 + pms_body[2] = 28
          /\ pms_body[29] * 256 + pms_body[30] = WireChecksum(pms_body)
    /\ (FirstReadDone /\ sent.kind = "badlen") =>
          /\ pms_ret = None
          /\ StatusFor(pms_ret) = Str("no_frame")
          /\ StatusFor(ParseBody(<< >>)) = Str("no_frame")

\* A frame with the length field 27 and the checksum that fits it was read
\* to its end and rejected.
C23_Witness ==
    /\ FirstReadDone /\ sent.kind = "badlen"
    /\ pms_body = WrongLengthBody
    /\ pms_body[29] * 256 + pms_body[30] = WireChecksum(pms_body)
    /\ pms_ret = None

\* ------------------------------------------------------------------------
\* SpecNode: main() for NodeTicks ticks with any node.yaml, ports that may
\* fail to open, readers whose read() does any of NodeReads (a frame, no
\* frame, an exception), the real read_so2 and read_bme, and the ways out
\* of the loop: Ctrl-C at any statement of the loop, of the startup or of
\* the finally clause, or write_sample raising.
\* ------------------------------------------------------------------------

NodeTicks == 2

NodeReads == {PMSFrame(10), None, [raise |-> "boom"]}

InitNode == \E c \in Configs : InitWith(c)

NodeBeginTick == BeginTick(NodeTicks)

NodeReadPMS1 == ReadPMS1(NodeReads, BOOLEAN)

NodeReadPMS2 == ReadPMS2(NodeReads, BOOLEAN)

\* read_so2() is called half a second or a second after its last call.
NodeTimes == {t \in {mono + 1, mono + 2} : t <= MaxClock}

NodeI2C == {[raise |-> "[Errno 121] Remote I/O error"],
            [data |-> <<255, 134, 0, 12, 0, 1, 0, 0>>]}

NodeReadSO2 == ReadSO2(NodeTimes, NodeI2C)

LoopPositions == {"top", "pms1", "pms2", "diag", "so2", "write", "sleep"}

InLoop == pc \in LoopPositions

\* Variant: the except clause hands the row in progress to the writer.
InterruptFlush(where) ==
    /\ pc \in where
    /\ pc' = "finally"
    /\ stop' = "interrupt"
    /\ written' = row
    /\ ticks' = ticks + 1
    /\ UNCHANGED <<cfg, pms1_reader, pms2_reader, so2_enabled, pms1_hist,
                   pms2_hist, row, drops>>
    /\ UNCHANGED so2vars
    /\ UNCHANGED pmsvars
    /\ UNCHANGED medvars
    /\ UNCHANGED <<ser1_open, ser2_open, dw_open, read_log, begun>>

\* KeyboardInterrupt raised inside the try block, at one of the positions
\* where: the except clause logs it.
InterruptAt(where) ==
    /\ pc \in where
    /\ pc' = "finally"
    /\ stop' = "interrupt"
    /\ UNCHANGED <<cfg, pms1_reader, pms2_reader, so2_enabled, pms1_hist,
                   pms2_hist, row, written, ticks, drops>>
    /\ UNCHANGED so2vars
    /\ UNCHANGED pmsvars
    /\ UNCHANGED medvars
    /\ UNCHANGED <<ser1_open, ser2_open, dw_open, read_log, begun>>

\* Python raises KeyboardInterrupt wherever the program is when the signal
\* arrives.
Interrupt == InterruptAt(LoopPositions)

\* The row after the first k of the assignments row[keys[i]] = fin[keys[i]].
AfterStores(r, fin, keys, k) ==
    LET done == {keys[i] : i \in 1..k}
    IN  [x \in DOMAIN r \cup done |-> IF x \in done THEN fin[x] ELSE r[x]]

\* The rows a KeyboardInterrupt leaves when it arrives in a block that takes
\* the row r to the row fin, after at least from of the block's assignments
\* and before the last one; keys: the cells the block assigns, in the order
\* of its statements (order).
RowsBetween(r, fin, order, from) ==
    LET Assigned(x) == x \in DOMAIN fin /\ (x \notin DOMAIN r \/ fin[x] /= r[x])
        keys == SelectSeq(order, Assigned)
    IN  {AfterStores(r, fin, keys, k) : k \in from..(Len(keys) - 1)}

\* The order of the assignments to the row in the blocks of the loop body.
BMEOrder == <<"temp_c", "rh_pct", "pressure_hpa", "voc_ohm", "bme_status">>

PMSOrder(n) == <<"pm1_atm_" \o n, "pm25_atm_" \o n, "pm10_atm_" \o n, n \o "_status">>

DiagOrder == <<"pm25_pms_mean", "pm25_pms_rpd", "pm25_pair_flag", "pm25_suspect_sensor">>

SO2Order == <<"so2_ppm", "so2_raw", "so2_byte0", "so2_byte1", "so2_error", "so2_status">>

\* KeyboardInterrupt raised in the BME block, after `row = {...}`: inside
\* read_bme() (its except clause prints) or between two assignments of the
\* block; the fresh row has no bme_status yet.
InterruptInBeginTick ==
    /\ pc = "top"
    /\ ticks < NodeTicks
    /\ cfg.bme
    /\ begun' = begun + 1
    /\ \E data \in BMEData :
          row' \in RowsBetween(NewRow, StoreBME(NewRow, read_bme(data)), BMEOrder, 0)
    /\ read_log' = {}
    /\ pc' = "finally"
    /\ stop' = "interrupt"
    /\ UNCHANGED <<cfg, pms1_reader, pms2_reader, so2_enabled, pms1_hist,
                   pms2_hist, written, ticks, drops>>
    /\ UNCHANGED so2vars
    /\ UNCHANGED pmsvars
    /\ UNCHANGED medvars
    /\ UNCHANGED <<ser1_open, ser2_open, dw_open>>

\* KeyboardInterrupt raised in the PMS1 block after pms1_reader.read() has
\* returned or raised, before the last assignment of the branch taken.
InterruptInStorePMS1 ==
    /\ pc = "pms1"
    /\ pms1_reader
    /\ \E s1 \in NodeReads, openok \in BOOLEAN :
          /\ Delivers(s1) => (ser1_open \/ openok)
          /\ ser1_open' = (ser1_open \/ openok)
          /\ row' \in RowsBetween(row, StorePMS(row, "pms1", s1), PMSOrder("pms1"), 0)
          /\ drops' = IF s1 = None THEN <<drops[1] + 1, drops[2]>> ELSE drops
    /\ read_log' = read_log \cup {"pms1"}
    /\ pc' = "finally"
    /\ stop' = "interrupt"
    /\ UNCHANGED <<cfg, pms1_reader, pms2_reader, so2_enabled, pms1_hist,
                   pms2_hist, written, ticks>>
    /\ UNCHANGED so2vars
    /\ UNCHANGED pmsvars
    /\ UNCHANGED medvars
    /\ UNCHANGED <<ser2_open, dw_open, begun>>

\* The same in the PMS2 block.
InterruptInStorePMS2 ==
    /\ pc = "pms2"
    /\ pms2_reader
    /\ \E s2 \in NodeReads, openok \in BOOLEAN :
          /\ Delivers(s2) => (ser2_open \/ openok)
          /\ ser2_open' = (ser2_open \/ openok)
          /\ row' \in RowsBetween(row, StorePMS(row, "pms2", s2), PMSOrder("pms2"), 0)
          /\ drops' = IF s2 = None THEN <<drops[1], drops[2] + 1>> ELSE drops
    /\ read_log' = read_log \cup {"pms2"}
    /\ pc' = "finally"
    /\ stop' = "interrupt"
    /\ UNCHANGED <<cfg, pms1_reader, pms2_reader, so2_enabled, pms1_hist,
                   pms2_hist, written, ticks>>
    /\ UNCHANGED so2vars
    /\ UNCHANGED pmsvars
    /\ UNCHANGED medvars
    /\ UNCHANGED <<ser1_open, dw_open, begun>>

\* What the diagnostics block has done when a KeyboardInterrupt arrives in
\* it: some or all of the four presets; then the first baseline fed; then
\* both; then the first assignments of the classification.
DiagnoseInterrupted(r, h1, h2) ==
    LET p  == PresetDiagnostics(r)
        hs == Baselines(r, h1, h2)
        d  == PairDiagnostics(r, h1, h2)
    IN  {[row |-> x, h1 |-> h1, h2 |-> h2] :
            x \in RowsBetween(r, p, DiagOrder, 1) \cup {p}}
        \cup {[row |-> p, h1 |-> hs[1], h2 |-> h2],
              [row |-> p, h1 |-> hs[1], h2 |-> hs[2]]}
        \cup {[row |-> x, h1 |-> hs[1], h2 |-> hs[2]] :
                x \in RowsBetween(p, d.row, DiagOrder, 1)}

\* KeyboardInterrupt raised between two statements of the diagnostics block.
InterruptInDiagnose ==
    /\ pc = "diag"
    /\ \E d \in DiagnoseInterrupted(row, pms1_hist, pms2_hist) :
          /\ row' = d.row
          /\ pms1_hist' = d.h1
          /\ pms2_hist' = d.h2
    /\ pc' = "finally"
    /\ stop' = "interrupt"
    /\ UNCHANGED <<cfg, pms1_reader, pms2_reader, so2_enabled, written, ticks, drops>>
    /\ UNCHANGED so2vars
    /\ UNCHANGED pmsvars
    /\ UNCHANGED medvars
    /\ UNCHANGED <<ser1_open, ser2_open, dw_open, read_log, begun>>

\* KeyboardInterrupt raised in the SO2 block after read_so2() has returned,
\* before the last of the six assignments.
InterruptInStoreSO2 ==
    /\ pc = "so2"
    /\ so2_enabled
    /\ CallReadSo2From(NodeTimes, NodeI2C)
    /\ row' \in RowsBetween(row, StoreSO2(row, so2_ret'), SO2Order, 0)
    /\ read_log' = read_log \cup {"so2"}
    /\ pc' = "finally"
    /\ stop' = "interrupt"
    /\ UNCHANGED <<cfg, pms1_reader, pms2_reader, so2_enabled, pms1_hist,
                   pms2_hist, written, ticks, drops>>
    /\ UNCHANGED pmsvars
    /\ UNCHANGED medvars
    /\ UNCHANGED <<ser1_open, ser2_open, dw_open, begun>>

\* KeyboardInterrupt raised while pms1_reader.read() waits in ser.read():
\* the port is open by then (open() has run), nothing is stored in the row,
\* and neither `except Exception` (of read(), of the block) catches it.
InterruptInReadPMS1 ==
    /\ pc = "pms1"
    /\ pms1_reader
    /\ \E openok \in BOOLEAN :
          /\ ser1_open \/ openok
          /\ ser1_open' = TRUE
    /\ pc' = "finally"
    /\ stop' = "interrupt"
    /\ UNCHANGED <<cfg, pms1_reader, pms2_reader, so2_enabled, pms1_hist,
                   pms2_hist, row, written, ticks, drops>>
    /\ UNCHANGED so2vars
    /\ UNCHANGED pmsvars
    /\ UNCHANGED medvars
    /\ UNCHANGED <<ser2_open, dw_open, read_log, begun>>

\* The same inside pms2_reader.read().
InterruptInReadPMS2 ==
    /\ pc = "pms2"
    /\ pms2_reader
    /\ \E openok \in BOOLEAN :
          /\ ser2_open \/ openok
          /\ ser2_open' = TRUE
    /\ pc' = "finally"
    /\ stop' = "interrupt"
    /\ UNCHANGED <<cfg, pms1_reader, pms2_reader, so2_enabled, pms1_hist,
                   pms2_hist, row, written, ticks, drops>>
    /\ UNCHANGED so2vars
    /\ UNCHANGED pmsvars
    /\ UNCHANGED medvars
    /\ UNCHANGED <<ser1_open, dw_open, read_log, begun>>

\* KeyboardInterrupt raised inside read_so2(), which returns nothing, so
\* that the row gets no so2 cell: after `now = time.monotonic()` (the
\* rate-limited return included); after _last_read_monotonic is stored;
\* or while the call waits in read_i2c_block_data, the register read issued.
InterruptInReadSO2 ==
    /\ pc = "so2"
    /\ so2_enabled
    /\ \E t \in NodeTimes :
          /\ mono' = t
          /\ so2_calls' = so2_calls + 1
          /\ \/ /\ UNCHANGED <<last_read_monotonic, so2_bus, reg_reads>>
                /\ so2_data' = None
             \/ /\ ~TooSoon(t, last_read_monotonic)
                /\ last_read_monotonic' = Stamp(t, last_read_monotonic)
                /\ UNCHANGED <<so2_bus, reg_reads>>
                /\ so2_data' = None
             \/ \E openok \in BOOLEAN, io \in NodeI2C :
                   /\ ~TooSoon(t, last_read_monotonic)
                   /\ so2_bus \/ openok
                   /\ last_read_monotonic' = Stamp(t, last_read_monotonic)
                   /\ so2_bus' = TRUE
                   /\ reg_reads' = reg_reads \o RegisterReads(t, TRUE)
                   /\ so2_data' = io
    /\ pc' = "finally"
    /\ stop' = "interrupt"
    /\ UNCHANGED <<so2_ret, attempts>>
    /\ UNCHANGED <<cfg, pms1_reader, pms2_reader, so2_enabled, pms1_hist,
                   pms2_hist, row, written, ticks, drops>>
    /\ UNCHANGED pmsvars
    /\ UNCHANGED medvars
    /\ UNCHANGED <<ser1_open, ser2_open, dw_open, read_log, begun>>

\* KeyboardInterrupt raised before the try statement, after j of the steps
\* of the startup: pms1_reader made, pms2_reader made, init_so2() run with
\* so2_enabled as node.yaml has it, so2_enabled settled, the daily writer
\* created.  No except or finally clause is around them: main() ends.
InterruptInStartup ==
    /\ pc = "startup"
    /\ \E j \in 0..5 :
          /\ pms1_reader' = IF j >= 1 THEN cfg.pms1 ELSE pms1_reader
          /\ pms2_reader' = IF j >= 2 THEN cfg.pms2 ELSE pms2_reader
          /\ IF j >= 3 /\ cfg.so2
             THEN \E openok \in BOOLEAN :
                     /\ init_so2(openok)
                     /\ so2_enabled' = IF j = 3 THEN cfg.so2
                                       ELSE EnabledAfterInit(so2_bus \/ openok)
             ELSE UNCHANGED <<so2_enabled, so2vars>>
          /\ dw_open' = IF j >= 5 THEN TRUE ELSE dw_open
    /\ pc' = "exit"
    /\ UNCHANGED <<cfg, pms1_hist, pms2_hist, row, written, ticks, drops>>
    /\ UNCHANGED pmsvars
    /\ UNCHANGED medvars
    /\ UNCHANGED <<ser1_open, ser2_open, read_log, begun, stop>>

\* dw.write_sample(...) raises: nothing in the loop catches it.
WriteFails ==
    /\ pc = "write"
    /\ pc' = "finally"
    /\ stop' = "escape"
    /\ UNCHANGED <<cfg, pms1_reader, pms2_reader, so2_enabled, pms1_hist,
                   pms2_hist, row, written, ticks, drops>>
    /\ UNCHANGED so2vars
    /\ UNCHANGED pmsvars
    /\ UNCHANGED medvars
    /\ UNCHANGED <<ser1_open, ser2_open, dw_open, read_log, begun>>

\* PMSReader.close(): closes the port if there is an open one.
close(isopen) == FALSE

\* The finally clause: dw.close(), then close() on the readers that exist.
Shutdown ==
    /\ pc = "finally"
    /\ dw_open' = FALSE
    /\ ser1_open' = IF pms1_reader THEN close(ser1_open) ELSE ser1_open
    /\ ser2_open' = IF pms2_reader THEN close(ser2_open) ELSE ser2_open
    /\ pc' = "exit"
    /\ UNCHANGED <<cfg, pms1_reader, pms2_reader, so2_enabled, pms1_hist,
                   pms2_hist, row, written, ticks, drops>>
    /\ UNCHANGED so2vars
    /\ UNCHANGED pmsvars
    /\ UNCHANGED medvars
    /\ UNCHANGED <<read_log, begun, stop>>

\* KeyboardInterrupt raised inside the finally clause, after k of dw.close()
\* and pms1_reader.close(): the rest of the clause does not run.
InterruptInShutdown ==
    /\ pc = "finally"
    /\ \E k \in 0..2 :
          /\ dw_open' = IF k >= 1 THEN FALSE ELSE dw_open
          /\ ser1_open' = IF k >= 2 /\ pms1_reader THEN close(ser1_open) ELSE ser1_open
    /\ pc' = "exit"
    /\ UNCHANGED <<cfg, pms1_reader, pms2_reader, so2_enabled, pms1_hist,
                   pms2_hist, row, written, ticks, drops>>
    /\ UNCHANGED so2vars
    /\ UNCHANGED pmsvars
    /\ UNCHANGED medvars
    /\ UNCHANGED <<ser2_open, read_log, begun, stop>>

NextNode ==
    \/ Startup
    \/ NodeBeginTick
    \/ NodeReadPMS1
    \/ NodeReadPMS2
    \/ Diagnose
    \/ NodeReadSO2
    \/ Write
    \/ Sleep
    \/ Interrupt
    \/ InterruptInReadPMS1
    \/ InterruptInReadPMS2
    \/ InterruptInReadSO2
    \/ InterruptInBeginTick
    \/ InterruptInStorePMS1
    \/ InterruptInStorePMS2
    \/ InterruptInDiagnose
    \/ InterruptInStoreSO2
    \/ InterruptInStartup
    \/ InterruptInShutdown
    \/ WriteFails
    \/ Shutdown

SpecNode == InitNode /\ [][NextNode]_vars

\* ------------------------------------------------------------------------
\* Properties of the loop body and of the shutdown
\* ------------------------------------------------------------------------

\* The blocks of the loop body that a tick of this node has to run.
EnabledBlocks ==
    (IF cfg.bme THEN {"bme"} ELSE {}) \cup
    (IF pms1_reader THEN {"pms1"} ELSE {}) \cup
    (IF pms2_reader THEN {"pms2"} ELSE {}) \cup
    (IF so2_enabled THEN {"so2"} ELSE {}) \cup {"diag"}

\* C17: in every tick that reaches the write, every enabled sensor (BME,
\* PMS1, PMS2, SO2) has been read whatever the reads of the others did
\* (no data, no frame, an error dict, an exception), the pair diagnostics
\* have run, and one row per tick is handed to the writer: the number of
\* rows written equals the number of ticks begun once the tick has written,
\* and is one less while the tick is under way.
C17_EveryEnabledSensorRead ==
    /\ pc \in {"write", "sleep"} =>
          /\ read_log = EnabledBlocks
          /\ PairFlag \notin {None, Str("NODATA")}
    /\ pc = "sleep" => (written = row /\ ticks = begun)
    /\ pc \in {"pms1", "pms2", "diag", "so2", "write"} => ticks = begun - 1
    /\ pc = "top" => ticks = begun

\* A second tick written on a node with the four sensors enabled, in which
\* the BME gave no data, PMS1 raised, PMS2 delivered a frame and the SO2
\* read failed.
C17_Witness ==
    /\ pc = "sleep" /\ ticks = 2
    /\ cfg.bme /\ pms1_reader /\ pms2_reader /\ so2_enabled
    /\ written.bme_status = Str("no_data")
    /\ written.pms1_status = Str("error:boom")
    /\ written.pms2_status = Str("ok")
    /\ written.so2_status = Str("error")
    /\ written.pm25_pair_flag = Str("PMS1_BAD")

PMSKeys(n) == {"pm1_atm_" \o n, "pm25_atm_" \o n, "pm10_atm_" \o n, n \o "_status"}

AgreementKeys ==
    {"pm25_pms_mean", "pm25_pms_rpd", "pm25_pair_flag", "pm25_suspect_sensor"}

\* The value and status keys of the enabled sensors and the agreement keys.
RecordKeys ==
    (IF cfg.bme THEN {"bme_status"} ELSE {}) \cup
    (IF pms1_reader THEN PMSKeys("pms1") ELSE {}) \cup
    (IF pms2_reader THEN PMSKeys("pms2") ELSE {}) \cup
    (IF so2_enabled THEN So2Keys ELSE {}) \cup AgreementKeys

\* C18: every row handed to the writer holds every key of the record: the
\* value keys and the status key of each enabled sensor and the four
\* agreement keys, also in a tick where a read failed.
C18_AllKeysPresent == pc = "sleep" => RecordKeys \subseteq DOMAIN written

\* A value that float() rejects.
NonNumeric(v) == v /= None /\ ~IsNum(v)

\* The flags the pair diagnostics can leave in the row.
PairFlags ==
    {Str(f) : f \in {"OK", "LOW_PM_OK", "MISMATCH", "BOTH_BAD", "PMS1_BAD",
                     "PMS2_BAD", "INCOMPLETE", "ERROR"}}

C20_TransportsClosed ==
    pc = "exit" => (~dw_open /\ ~ser1_open /\ ~ser2_open /\ ~so2_bus)

\* The part of C20 the finally clause does provide when it runs to its end.
SerialAndWriterClosed ==
    [][Shutdown => (~dw_open' /\ ~ser1_open' /\ ~ser2_open')]_vars

\* ------------------------------------------------------------------------
\* SpecMedian: median() called once on any list of up to MedLen of the
\* MedValues, in any order and with repetitions.
\* ------------------------------------------------------------------------

MedLen == 4

MedValues == {Rat(10, 1), Rat(20, 1), Rat(30, 1), Rat(40, 1)}

MedLists == UNION {[1..n -> MedValues] : n \in 0..MedLen}

InitMedian ==
    /\ InitBase([bme |-> FALSE, pms1 |-> FALSE, pms2 |-> FALSE, so2 |-> FALSE,
                 tick_seconds |-> 1])
    /\ med_xs \in MedLists
    /\ med_ret = None
    /\ med_calls = 0

\* median(xs): `xs = sorted(xs)` binds the local name to a new list, the
\* caller's list is not touched.
CallMedian ==
    /\ med_calls = 0
    /\ med_ret' = median(med_xs)
    /\ med_xs' = med_xs
    /\ med_calls' = med_calls + 1
    /\ UNCHANGED <<loopvars, so2vars, pmsvars, nodevars>>

NextMedian == CallMedian

SpecMedian == InitMedian /\ [][NextMedian]_vars

\* Number of elements of xs below / above v.
Below(xs, v) == Cardinality({i \in 1..Len(xs) : RLt(xs[i], v)})

Above(xs, v) == Cardinality({i \in 1..Len(xs) : RLt(v, xs[i])})

\* The k-th smallest element of xs, by counting.
KthSmallest(xs, k) ==
    CHOOSE v \in {xs[i] : i \in 1..Len(xs)} :
        Below(xs, v) < k /\ k <= Len(xs) - Above(xs, v)

\* The median by its textbook definition.
StandardMedian(xs) ==
    LET n == Len(xs)
    IN  IF n = 0 THEN None
        ELSE IF n % 2 = 1 THEN KthSmallest(xs, (n + 1) \div 2)
        ELSE HalfSum(KthSmallest(xs, n \div 2), KthSmallest(xs, n \div 2 + 1))

\* xs rearranged by the permutation p of its indexes.
Rearranged(xs, p) == [i \in 1..Len(xs) |-> xs[p[i]]]

\* C21: median returns the standard median: the middle element of the sorted
\* values for an odd length, the average of the two middle ones for an even
\* length, None for the empty list; every rearrangement of the list gives
\* the same result, and the call leaves the caller's list as it was.
C21_StandardMedian ==
    /\ [](med_calls = 1 =>
            /\ med_ret = StandardMedian(med_xs)
            /\ \A p \in Permutations(1..Len(med_xs)) :
                  median(Rearranged(med_xs, p)) = med_ret)
    /\ [][med_calls' = med_calls + 1 => med_xs' = med_xs]_vars

\* median was called on the unsorted list 40, 10, 30, 20 and returned 25.
C21_Witness ==
    /\ med_calls = 1
    /\ med_xs = <<Rat(40, 1), Rat(10, 1), Rat(30, 1), Rat(20, 1)>>
    /\ med_ret = Rat(25, 1)

\* ------------------------------------------------------------------------
\* Properties of the stop signal and of the startup
\* ------------------------------------------------------------------------

\* C24 as the specification states it: the stop signal ends the loop only
\* between ticks, every tick begun has written its row when the loop ends.
C24_StopsOnlyBetweenTicks == stop = "interrupt" => ticks = begun

\* C24: KeyboardInterrupt ends the loop wherever it arrives, also in the
\* middle of a tick and between two statements of a block.  The tick under
\* way is then abandoned: its row, however far it was built, is not handed
\* to the writer (the rows written are the ticks begun, or one less), every
\* row the writer got went through the whole pair diagnostics, and the
\* finally clause is entered.
C24_InterruptAbandonsTick ==
    /\ stop = "interrupt" =>
          (ticks \in {begun - 1, begun} /\ pc \in {"finally", "exit"})
    /\ DOMAIN written /= {} =>
          (/\ AgreementKeys \subseteq DOMAIN written
           /\ written.pm25_pair_flag /= Str("NODATA"))

\* The loop was left by a KeyboardInterrupt that came in the second tick
\* after the PMS1 read, before the PMS2 read; one row was written.
C24_Witness ==
    /\ pc = "exit" /\ stop = "interrupt"
    /\ begun = 2 /\ ticks = 1
    /\ pms1_reader /\ pms2_reader
    /\ "pms1" \in read_log /\ "pms2" \notin read_log
    /\ "pms1_status" \in DOMAIN row /\ "pm25_pair_flag" \notin DOMAIN row

\* The startup ran to its end: main() is in its try statement or has left
\* it through the finally clause.
Started == pc \in LoopPositions \cup {"finally"} \/ (pc = "exit" /\ stop /= "none")

\* C25 as the specification states it, for the PM sensors: a sensor whose
\* port could not be opened is disabled, no later tick reads it.  (A port
\* still closed when the PMS1 block of a later tick starts is one that a
\* read of an earlier tick failed to open.)
C25_UnopenablePortDisabled ==
    [][(pc = "pms1" /\ begun >= 2 /\ ~ser1_open) => read_log' = read_log]_vars

\* C25: when init_so2() fails at startup the SO2 sensor is disabled for
\* good: so2_enabled is set once, to whether the bus opened, read_so2 is
\* never called, no register is read and the bus stays closed, while the
\* loop runs on.  A PM sensor is not disabled by a port that cannot be
\* opened: its reader exists whenever node.yaml enables it, the port is not
\* opened at startup, and every tick calls read(), which tries to open the
\* port again.
C25_StartupFailureDisablesSO2 ==
    /\ [](/\ (pc = "top" /\ begun = 0 /\ cfg.so2) => (so2_enabled <=> so2_bus)
          /\ (pc /= "startup" /\ ~so2_enabled) =>
                (so2_calls = 0 /\ reg_reads = << >> /\ "so2" \notin read_log)
          /\ (Started /\ cfg.so2 /\ ~so2_enabled) => ~so2_bus
          /\ Started => (pms1_reader = cfg.pms1 /\ pms2_reader = cfg.pms2)
          /\ pc = "top" /\ begun = 0 => (~ser1_open /\ ~ser2_open)
          /\ (pc \in {"write", "sleep"} /\ cfg.pms1) => "pms1" \in read_log)
    /\ [][pc /= "startup" => so2_enabled' = so2_enabled]_vars

\* The second tick was written on a node whose SO2 initialisation failed and
\* whose PMS1 port did not open in the first tick: no read_so2 call was
\* made, and the PMS1 read of the second tick opened the port and delivered.
C25_Witness ==
    /\ pc = "sleep" /\ ticks = 2
    /\ cfg.so2 /\ ~so2_enabled /\ so2_calls = 0 /\ ~so2_bus
    /\ cfg.pms1 /\ ser1_open
    /\ drops[1] = 1
    /\ written.pms1_status = Str("ok")
    /\ "so2_status" \notin DOMAIN written

\* ------------------------------------------------------------------------
\* The baselines at the moment of fault attribution
\* ------------------------------------------------------------------------

Last(h) == h[Len(h)]

\* C26: whenever fault attribution runs (both sensors "ok", flag MISMATCH),
\* each baseline already ends with this tick's PM2.5 value, so both are
\* non-empty, both medians exist (the dev = 0.0 fallback for a missing
\* baseline is not taken) and the suspect is the one the margin rule gives on
\* the deviations from the medians of the baselines that include the current
\* values; when each baseline holds nothing but the current value (a first
\* tick, or a first "ok" tick of both sensors) both deviations are 0 and the
\* suspect is BOTH.
C26_BaselineHoldsCurrent ==
    (Diagnosed /\ PairFlag = Str("MISMATCH")) =>
        /\ BothOkWithValues
        /\ Len(pms1_hist) >= 1 /\ Len(pms2_hist) >= 1
        /\ Last(pms1_hist) = ToFloat(V1) /\ Last(pms2_hist) = ToFloat(V2)
        /\ median(pms1_hist) /= None /\ median(pms2_hist) /= None
        /\ SuspectSensor = Str(Suspect(Deviation(ToFloat(V1), median(pms1_hist)),
                                       Deviation(ToFloat(V2), median(pms2_hist))))
        /\ (Len(pms1_hist) = 1 /\ Len(pms2_hist) = 1) =>
              /\ Dev1 = Rat(0, 1) /\ Dev2 = Rat(0, 1)
              /\ SuspectSensor = Str("BOTH")
        /\ TicksDiagnosed = 1 => (Len(pms1_hist) = 1 /\ Len(pms2_hist) = 1)

\* A second tick that is a MISMATCH: the medians 5.5 and 13 of the baselines
\* that already hold 1 and 16 blame PMS1, where the medians 10 and 10 of the
\* baselines before the tick would blame nobody in particular.
C26_Witness ==
    /\ Diagnosed /\ PairFlag = Str("MISMATCH")
    /\ pms1_hist = <<Rat(10, 1), Rat(1, 1)>>
    /\ pms2_hist = <<Rat(10, 1), Rat(16, 1)>>
    /\ SuspectSensor = Str("PMS1")

\* The first tick of a run being a MISMATCH.
C26_FirstTickWitness ==
    /\ Diagnosed /\ PairFlag = Str("MISMATCH") /\ TicksDiagnosed = 1
    /\ Len(pms1_hist) = 1 /\ Len(pms2_hist) = 1
    /\ SuspectSensor = Str("BOTH")

\* ------------------------------------------------------------------------
\* Consistency of the four agreement fields
\* ------------------------------------------------------------------------

\* The four agreement fields of the record r fit together.
AgreementConsistent(r) ==
    LET flag    == Get(r, "pm25_pair_flag", None)
        mean    == Get(r, "pm25_pms_mean", None)
        d       == Get(r, "pm25_pms_rpd", None)
        suspect == Get(r, "pm25_suspect_sensor", None)
    IN  /\ flag \in PairFlags
        /\ IsNum(mean) <=> flag \in {Str("OK"), Str("LOW_PM_OK"), Str("MISMATCH")}
        /\ ~IsNum(mean) => mean = Str("NODATA")
        /\ IsNum(d) <=> flag \in {Str("OK"), Str("MISMATCH")}
        /\ ~IsNum(d) => d = Str("NODATA")
        /\ suspect = Str("PMS1") => flag \in {Str("MISMATCH"), Str("PMS1_BAD")}
        /\ suspect = Str("PMS2") => flag \in {Str("MISMATCH"), Str("PMS2_BAD")}
        /\ suspect = Str("BOTH") => flag \in {Str("MISMATCH"), Str("BOTH_BAD")}

\* What the diagnostics block is tried on, beyond the rows the readers of
\* the repository produce: for each sensor nothing (reader not configured),
\* "no_frame", an error cell, or an "ok" status over a PM2.5 cell that is
\* low, high, not a number or missing.
AgreementOutcomes ==
    NodeReads \cup {PMSFrame(v) : v \in {0, 1, 16}} \cup
    {[pm1 |-> Rat(1, 1), pm25 |-> Str("abc"), pm10 |-> Rat(2, 1)],
     [pm1 |-> Rat(1, 1), pm10 |-> Rat(2, 1)]}

AgreementRows ==
    LET one == {NewRow} \cup {StorePMS(NewRow, "pms1", a) : a \in AgreementOutcomes}
    IN  one \cup {StorePMS(r, "pms2", b) : r \in one, b \in AgreementOutcomes}

\* C27: in every record the agreement fields are mutually consistent: the
\* pair flag is one of the eight flags and never "NODATA"; the mean is a
\* number exactly when the flag is OK, LOW_PM_OK or MISMATCH; the rpd is a
\* number exactly when the flag is OK or MISMATCH; and the suspect is PMS1,
\* PMS2 or BOTH only with MISMATCH or the *_BAD / BOTH_BAD flag of that
\* sensor.  This holds of the row once the diagnostics have run, of the row
\* written, and, in the first two ticks, of what the diagnostics would make
\* of any pair of reads against the baselines of the moment.
C27_AgreementFieldsConsistent ==
    /\ Diagnosed => AgreementConsistent(row)
    /\ DOMAIN written /= {} => AgreementConsistent(written)
    /\ (pc = "diag" /\ ticks <= 1) =>
          \A r \in AgreementRows :
              AgreementConsistent(PairDiagnostics(r, pms1_hist, pms2_hist).row)

\* A record written with a numeric mean and no rpd: both sensors low.
C27_Witness ==
    /\ DOMAIN written /= {}
    /\ Get(written, "pm25_pair_flag", None) = Str("LOW_PM_OK")
    /\ IsNum(Get(written, "pm25_pms_mean", None))
    /\ Get(written, "pm25_pms_rpd", None) = Str("NODATA")

\* ------------------------------------------------------------------------
\* SpecHandle: one PMSReader whose open(), read() and close() are called in
\* any order (__enter__ is open(), __exit__ is close()), at most
\* MaxHandleCalls times in all.  The line carries two frames, or nothing.
\* ------------------------------------------------------------------------

MaxHandleCalls == 4

HandleSources ==
    LET ws == DataWords(1, 2, 3)
    IN  { [kind |-> "pair", words |-> ws, bytes |-> Frame(ws) \o Frame(ws)],
          [kind |-> "nothing", words |-> ws, bytes |-> << >>] }

InitHandle == InitReader(HandleSources)

\* Between two calls: no read() is under way.
BetweenCalls == ppc \in {"idle", "done"}

\* open() is called; an exception of serial.Serial() goes to the caller.
CallOpen ==
    /\ BetweenCalls
    /\ pms_calls < MaxHandleCalls
    /\ pms_calls' = pms_calls + 1
    /\ pms_log' = Append(pms_log, "open")
    /\ \E openok \in BOOLEAN :
          LET o == open(ser_open, handles, openok)
          IN  /\ ser_open' = o.ser
              /\ handles' = o.handles
    /\ UNCHANGED <<sent, stream, ppc, pms_ret, pms_body>>
    /\ UNCHANGED <<loopvars, so2vars, nodevars, medvars>>

\* close() is called: if self._ser is not None and self._ser.is_open, the
\* port is closed and self._ser becomes None.
CallClose ==
    /\ BetweenCalls
    /\ pms_calls < MaxHandleCalls
    /\ pms_calls' = pms_calls + 1
    /\ pms_log' = Append(pms_log, "close")
    /\ ser_open' = close(ser_open)
    /\ handles' = IF ser_open THEN handles - 1 ELSE handles
    /\ UNCHANGED <<sent, stream, ppc, pms_ret, pms_body>>
    /\ UNCHANGED <<loopvars, so2vars, nodevars, medvars>>

CallHandleRead == PmsCall(MaxHandleCalls)

NextHandle ==
    \/ CallOpen
    \/ CallClose
    \/ CallHandleRead
    \/ SyncFirst
    \/ SyncSecond
    \/ ReadBody

SpecHandle == InitHandle /\ [][NextHandle]_vars

\* The last method called, "" before the first call.
LastCall == IF pms_log = << >> THEN "" ELSE pms_log[Len(pms_log)]

\* The step is a call of the method m.
Calls(m) == pms_log' = Append(pms_log, m)

\* C28: over any sequence of open(), read() and close() calls the reader
\* holds at most one open serial handle, and it is the only one open:
\* open() and the open() inside read() create a handle only when none is
\* open; close() on an open reader closes it and leaves the reader without a
\* handle; close() with nothing open changes nothing; a read() on a reader
\* without a handle (never opened, or closed) opens the port before its
\* first byte is read, or returns None without reading when the port cannot
\* be opened; bytes are taken from the line only through an open port.
C28_AtMostOneHandle ==
    /\ [](/\ handles \in {0, 1}
          /\ handles = (IF ser_open THEN 1 ELSE 0)
          /\ ppc \in {"sync", "second", "body"} => ser_open)
    /\ [][/\ handles' > handles =>
               (~ser_open /\ handles' = 1 /\ (Calls("open") \/ Calls("read")))
          /\ (Calls("open") /\ ser_open) => (ser_open' /\ handles' = handles)
          /\ Calls("close") =>
               /\ ~ser_open' /\ handles' = 0
               /\ ~ser_open => handles' = handles
               /\ UNCHANGED <<stream, ppc, pms_ret>>
          /\ (Calls("read") /\ ~ser_open) =>
               \/ ser_open' /\ handles' = 1 /\ ppc' = "sync" /\ stream' = stream
               \/ ~ser_open' /\ handles' = 0 /\ ppc' = "done"
                     /\ pms_ret' = None /\ stream' = stream
          /\ stream' /= stream => (ser_open /\ ser_open' /\ handles = 1)
         ]_vars

\* open(), open() again, close(), then a read() that has reopened the port
\* and decoded the first frame of the line.
C28_Witness ==
    /\ pms_log = <<"open", "open", "close", "read">>
    /\ ppc = "done" /\ pms_ret = [pm1 |-> Rat(1, 1), pm25 |-> Rat(2, 1), pm10 |-> Rat(3, 1)]
    /\ ser_open /\ handles = 1

====
